---- MODULE Spec2Model ----
(***************************************************************************)
(* Crossword grid generator (Eyas/CrosswordGen).                           *)
(*                                                                         *)
(* Two parts of the repository are modelled:                               *)
(*   - the PossibleLines algebra of pkg/primitives (Go): CharSet,          *)
(*     ConcreteLine and the seven variants with their operations;          *)
(*   - the line enumerator, the prefilter and the grid search of           *)
(*     WordGenLib/Gen.cs (C#).                                             *)
(*                                                                         *)
(* Runes are their code points ('`' = 96, 'a' = 97 .. 'z' = 122); a word   *)
(* or a line is a tuple of runes.  Go and C# index from 0, tuples from 1:  *)
(* every index of the model is the source's 0-based index and At(s, i)     *)
(* reads s[i+1].  A Go pointer is modelled by the value it points to, so   *)
(* `p == q` on pointers is equality of values; an operation that writes    *)
(* through a pointer has, beside its result, a second operator giving the  *)
(* value the receiver holds afterwards.  Distinct nodes of a PossibleLines *)
(* tree are distinct objects (no node is shared between two parents).      *)
(***************************************************************************)
EXTENDS Integers, Sequences, FiniteSets, TLC

VARIABLES
    pl,         \* algebra: the PossibleLines value a caller holds
    last,       \* algebra: the operation just applied (receiver, arguments, result)
    generator,  \* search: the Generator instance (grid size and word lists)
    frames,     \* search: the suspended iterator frames, innermost last
    yielded,    \* search: <<grid>> when the step just taken yielded a FinalGrid, else <<>>
    outcome,    \* search: "running", "returned" or "threw"
    ctx,        \* command line: the context main passes down, "live" or "done"
    stdout,     \* command line: what main has printed, in order
    sets        \* CharSet: the two CharSet objects a caller holds

vars == <<pl, last, generator, frames, yielded, outcome, ctx, stdout, sets>>

searchVars == <<generator, frames, yielded, outcome>>

(***************************************************************************)
(* Sequence helpers (Go slices, C# arrays).                                *)
(***************************************************************************)
At(s, i) == s[i + 1]

SeqContains(s, x) == \E k \in 1..Len(s) : s[k] = x

RECURSIVE FlattenSeq(_)
FlattenSeq(ss) == IF Len(ss) = 0 THEN <<>> ELSE Head(ss) \o FlattenSeq(Tail(ss))

RECURSIVE SumSeq(_)
SumSeq(s) == IF Len(s) = 0 THEN 0 ELSE Head(s) + SumSeq(Tail(s))

Min(S) == CHOOSE x \in S : \A y \in S : x <= y

(***************************************************************************)
(* CharSet (char_set.go): a 32-bit word, here the set of its set bit       *)
(* positions, and the cached count.                                        *)
(***************************************************************************)
kBlocked == 96

minChar == 96

maxChar == 122

numChars == maxChar - minChar + 1

NewCharSet == [bits |-> {}, count |-> 0]

OnesCount32(bits) == Cardinality(bits)

Add(c, r) ==
    IF r < minChar \/ r > maxChar THEN c
    ELSE LET bitPos == r - minChar IN
         IF bitPos \notin c.bits
         THEN [bits |-> c.bits \cup {bitPos}, count |-> OnesCount32(c.bits \cup {bitPos})]
         ELSE c

AddAll(c, other) ==
    LET newBits == c.bits \cup other.bits IN
    IF newBits # c.bits THEN [bits |-> newBits, count |-> OnesCount32(newBits)]
    ELSE c

Contains(c, r) == r >= minChar /\ r <= maxChar /\ (r - minChar) \in c.bits

ContainsAll(c, other) == other.bits \subseteq c.bits

\* Faulty variant of Intersect: the cached count is not recomputed.
IntersectKeepsCount(c, other) == [c EXCEPT !.bits = c.bits \cap other.bits]

Intersect(c, other) ==
    LET newBits == c.bits \cap other.bits IN
    IF newBits # c.bits THEN [bits |-> newBits, count |-> OnesCount32(newBits)]
    ELSE c

Clear(c) == [bits |-> {}, count |-> 0]

Clone(c) == [bits |-> c.bits, count |-> c.count]

\* the error Add returns for a rune outside minChar..maxChar
AddError(r) == r < minChar \/ r > maxChar

IsFull(c) == c.count = numChars

Capacity(c) == numChars

Count(c) == c.count

RECURSIVE AddRunes(_, _)
AddRunes(c, rs) == IF Len(rs) = 0 THEN c ELSE AddRunes(Add(c, Head(rs)), Tail(rs))

(***************************************************************************)
(* PossibleLines values.  letterMasks of a Words is <<>> while the Go      *)
(* slice is nil; a mask whose bits are 0 is "not computed yet".            *)
(***************************************************************************)
MakeImpossible(numLetters) == [tag |-> "Impossible", numLetters |-> numLetters]

isImpossible(p) == p.tag = "Impossible"

isCompound(p) == p.tag = "Compound"

ConcreteLine(line, words) == [Line |-> line, Words |-> words]

MakeDefinite(line) == [tag |-> "Definite", line |-> line]

\* Faulty variant of MakeWords: a single word is kept as a Words value.
MakeWordsKeepsSingleton(allWords, obscureIdx, numLetters) ==
    IF Len(allWords) = 0 THEN MakeImpossible(numLetters)
    ELSE [tag |-> "Words", allWords |-> allWords, obscureIdx |-> obscureIdx,
          letterMasks |-> <<>>]

MakeWords(allWords, obscureIdx, numLetters) ==
    IF Len(allWords) = 0 THEN MakeImpossible(numLetters)
    ELSE IF Len(allWords) = 1
    THEN MakeDefinite(ConcreteLine(allWords[1], <<allWords[1]>>))
    ELSE [tag |-> "Words", allWords |-> allWords, obscureIdx |-> obscureIdx,
          letterMasks |-> <<>>]

MakeWordsFromPreferredAndObscure(preferred, obscure, numLetters) ==
    IF Len(preferred) = 0 /\ Len(obscure) = 0 THEN MakeImpossible(numLetters)
    ELSE IF Len(preferred) = 1 /\ Len(obscure) = 0
    THEN MakeDefinite(ConcreteLine(preferred[1], <<preferred[1]>>))
    ELSE IF Len(preferred) = 0 /\ Len(obscure) = 1
    THEN MakeDefinite(ConcreteLine(obscure[1], <<obscure[1]>>))
    ELSE [tag |-> "Words", allWords |-> preferred \o obscure,
          obscureIdx |-> Len(preferred), letterMasks |-> <<>>]

RECURSIVE NumLetters(_)
NumLetters(p) ==
    CASE p.tag = "Impossible" -> p.numLetters
      [] p.tag = "Definite" -> Len(p.line.Line)
      [] p.tag = "Words" -> Len(p.allWords[1])
      [] p.tag = "BlockBefore" -> 1 + NumLetters(p.lines)
      [] p.tag = "BlockAfter" -> 1 + NumLetters(p.lines)
      [] p.tag = "BlockBetween" -> 1 + NumLetters(p.first) + NumLetters(p.second)
      [] p.tag = "Compound" -> NumLetters(p.possibilities[1])

RECURSIVE MaxPossibilities(_)
MaxPossibilities(p) ==
    CASE p.tag = "Impossible" -> 0
      [] p.tag = "Definite" -> 1
      [] p.tag = "Words" -> Len(p.allWords)
      [] p.tag = "BlockBefore" -> MaxPossibilities(p.lines)
      [] p.tag = "BlockAfter" -> MaxPossibilities(p.lines)
      [] p.tag = "BlockBetween" -> MaxPossibilities(p.first) * MaxPossibilities(p.second)
      [] p.tag = "Compound" ->
            SumSeq([k \in 1..Len(p.possibilities) |-> MaxPossibilities(p.possibilities[k])])

MakeBlockBefore(lines) ==
    IF isImpossible(lines) THEN MakeImpossible(NumLetters(lines) + 1)
    ELSE [tag |-> "BlockBefore", lines |-> lines]

MakeBlockAfter(lines) ==
    IF isImpossible(lines) THEN MakeImpossible(NumLetters(lines) + 1)
    ELSE [tag |-> "BlockAfter", lines |-> lines]

MakeBlockBetween(first, second) ==
    IF isImpossible(first) \/ isImpossible(second)
    THEN MakeImpossible(NumLetters(first) + NumLetters(second) + 1)
    ELSE [tag |-> "BlockBetween", first |-> first, second |-> second]

RECURSIVE MakeCompound(_, _)
MakeCompound(possibilities, numLetters) ==
    IF Len(possibilities) = 0 THEN MakeImpossible(numLetters)
    ELSE IF Len(possibilities) = 1 THEN possibilities[1]
    ELSE IF \E k \in 1..Len(possibilities) :
               isImpossible(possibilities[k]) \/ isCompound(possibilities[k])
    THEN LET filtered == FlattenSeq([k \in 1..Len(possibilities) |->
                 IF isImpossible(possibilities[k]) THEN <<>>
                 ELSE IF isCompound(possibilities[k]) THEN possibilities[k].possibilities
                 ELSE <<possibilities[k]>>])
         IN MakeCompound(filtered, numLetters)
    ELSE [tag |-> "Compound", possibilities |-> possibilities]

BlockBeforeBuild(b, inner) ==
    IF isImpossible(inner) THEN MakeImpossible(NumLetters(b))
    ELSE IF inner = b.lines THEN b
    ELSE [tag |-> "BlockBefore", lines |-> inner]

BlockAfterBuild(b, inner) ==
    IF isImpossible(inner) THEN MakeImpossible(NumLetters(b))
    ELSE IF inner = b.lines THEN b
    ELSE [tag |-> "BlockAfter", lines |-> inner]

BlockBetweenBuild(b, first, second) ==
    IF isImpossible(first) \/ isImpossible(second) THEN MakeImpossible(NumLetters(b))
    ELSE IF first = b.first /\ second = b.second THEN b
    ELSE [tag |-> "BlockBetween", first |-> first, second |-> second]

(***************************************************************************)
(* Iterate: the sequence of ConcreteLines, in the order the Go iterator    *)
(* yields them.                                                            *)
(***************************************************************************)
WordsIterate(w) ==
    [k \in 1..Len(w.allWords) |-> ConcreteLine(w.allWords[k], <<w.allWords[k]>>)]

RECURSIVE Iterate(_)
BlockBeforeIterate(b) ==
    LET inner == Iterate(b.lines) IN
    [k \in 1..Len(inner) |-> ConcreteLine(<<kBlocked>> \o inner[k].Line, inner[k].Words)]

BlockAfterIterate(b) ==
    LET inner == Iterate(b.lines) IN
    [k \in 1..Len(inner) |-> ConcreteLine(inner[k].Line \o <<kBlocked>>, inner[k].Words)]

BlockBetweenIterate(b) ==
    LET F == Iterate(b.first)
        S == Iterate(b.second)
    IN FlattenSeq([x \in 1..Len(F) |-> [y \in 1..Len(S) |->
           ConcreteLine(F[x].Line \o <<kBlocked>> \o S[y].Line, F[x].Words \o S[y].Words)]])

CompoundIterate(c) ==
    FlattenSeq([k \in 1..Len(c.possibilities) |-> Iterate(c.possibilities[k])])

Iterate(p) ==
    CASE p.tag = "Impossible" -> <<>>
      [] p.tag = "Definite" -> <<p.line>>
      [] p.tag = "Words" -> WordsIterate(p)
      [] p.tag = "BlockBefore" -> BlockBeforeIterate(p)
      [] p.tag = "BlockAfter" -> BlockAfterIterate(p)
      [] p.tag = "BlockBetween" -> BlockBetweenIterate(p)
      [] p.tag = "Compound" -> CompoundIterate(p)

(***************************************************************************)
(* CharsAt writes into the accumulator and, for a Words, into the          *)
(* receiver's letterMasks cache: CharsAtBoth gives both, as                *)
(* [acc |-> the accumulator afterwards, recv |-> the receiver afterwards]. *)
(***************************************************************************)
\* Faulty variant of WordsLetterMask: the mask of the first cell, whatever the index.
WordsLetterMaskOfFirstCell(w, index) ==
    AddRunes(NewCharSet, [k \in 1..Len(w.allWords) |-> At(w.allWords[k], 0)])

WordsLetterMask(w, index) ==
    AddRunes(NewCharSet, [k \in 1..Len(w.allWords) |-> At(w.allWords[k], index)])

WordsCharsAt(w, accumulate, index) ==
    IF IsFull(accumulate)
       \/ (~Contains(accumulate, kBlocked) /\ Count(accumulate) + 1 = Capacity(accumulate))
    THEN [acc |-> accumulate, recv |-> w]
    ELSE LET made == IF w.letterMasks = <<>>
                     THEN [k \in 1..NumLetters(w) |-> NewCharSet]
                     ELSE w.letterMasks
             masks == IF At(made, index).bits = {}
                      THEN [made EXCEPT ![index + 1] = WordsLetterMask(w, index)]
                      ELSE made
         IN [acc |-> AddAll(accumulate, At(masks, index)),
             recv |-> [w EXCEPT !.letterMasks = masks]]

DefiniteCharsAt(d, accumulate, index) ==
    [acc |-> Add(accumulate, At(d.line.Line, index)), recv |-> d]

RECURSIVE CharsAtBoth(_, _, _)
\* Faulty variant of BlockBeforeCharsAt: the leading blocked cell is not reported.
BlockBeforeCharsAtNoBlock(b, accumulate, index) ==
    IF IsFull(accumulate) \/ index = 0 THEN [acc |-> accumulate, recv |-> b]
    ELSE LET r == CharsAtBoth(b.lines, accumulate, index - 1)
         IN [acc |-> r.acc, recv |-> [b EXCEPT !.lines = r.recv]]

BlockBeforeCharsAt(b, accumulate, index) ==
    IF IsFull(accumulate) THEN [acc |-> accumulate, recv |-> b]
    ELSE IF index = 0 THEN [acc |-> Add(accumulate, kBlocked), recv |-> b]
    ELSE LET r == CharsAtBoth(b.lines, accumulate, index - 1)
         IN [acc |-> r.acc, recv |-> [b EXCEPT !.lines = r.recv]]

BlockAfterCharsAt(b, accumulate, index) ==
    IF IsFull(accumulate) THEN [acc |-> accumulate, recv |-> b]
    ELSE IF index = NumLetters(b.lines) THEN [acc |-> Add(accumulate, kBlocked), recv |-> b]
    ELSE LET r == CharsAtBoth(b.lines, accumulate, index)
         IN [acc |-> r.acc, recv |-> [b EXCEPT !.lines = r.recv]]

BlockBetweenCharsAt(b, accumulate, index) ==
    IF IsFull(accumulate) THEN [acc |-> accumulate, recv |-> b]
    ELSE IF index = NumLetters(b.first)
    THEN [acc |-> Add(accumulate, kBlocked), recv |-> b]
    ELSE IF index < NumLetters(b.first)
    THEN LET r == CharsAtBoth(b.first, accumulate, index)
         IN [acc |-> r.acc, recv |-> [b EXCEPT !.first = r.recv]]
    ELSE LET r == CharsAtBoth(b.second, accumulate, index - NumLetters(b.first) - 1)
         IN [acc |-> r.acc, recv |-> [b EXCEPT !.second = r.recv]]

RECURSIVE CompoundCharsAtLoop(_, _, _, _)
CompoundCharsAtLoop(possibilities, k, accumulate, index) ==
    IF k > Len(possibilities) THEN [acc |-> accumulate, kids |-> possibilities]
    ELSE LET r == CharsAtBoth(possibilities[k], accumulate, index)
             kids == [possibilities EXCEPT ![k] = r.recv]
         IN IF IsFull(r.acc) THEN [acc |-> r.acc, kids |-> kids]
            ELSE CompoundCharsAtLoop(kids, k + 1, r.acc, index)

CompoundCharsAt(c, accumulate, index) ==
    LET r == CompoundCharsAtLoop(c.possibilities, 1, accumulate, index)
    IN [acc |-> r.acc, recv |-> [c EXCEPT !.possibilities = r.kids]]

CharsAtBoth(p, accumulate, index) ==
    CASE p.tag = "Impossible" -> [acc |-> accumulate, recv |-> p]
      [] p.tag = "Definite" -> DefiniteCharsAt(p, accumulate, index)
      [] p.tag = "Words" -> WordsCharsAt(p, accumulate, index)
      [] p.tag = "BlockBefore" -> BlockBeforeCharsAt(p, accumulate, index)
      [] p.tag = "BlockAfter" -> BlockAfterCharsAt(p, accumulate, index)
      [] p.tag = "BlockBetween" -> BlockBetweenCharsAt(p, accumulate, index)
      [] p.tag = "Compound" -> CompoundCharsAt(p, accumulate, index)

CharsAt(p, accumulate, index) == CharsAtBoth(p, accumulate, index).acc

CharsAtReceiver(p, accumulate, index) == CharsAtBoth(p, accumulate, index).recv

(***************************************************************************)
(* DefinitelyBlockedAt, DefiniteWords, FirstOrNull (nil is <<>>, a pointer *)
(* to a line is the one-element tuple holding it).                         *)
(***************************************************************************)
RECURSIVE DefinitelyBlockedAt(_, _)
DefinitelyBlockedAt(p, index) ==
    CASE p.tag = "Impossible" -> FALSE
      [] p.tag = "Definite" -> At(p.line.Line, index) = kBlocked
      [] p.tag = "Words" -> FALSE
      [] p.tag = "BlockBefore" ->
            IF index = 0 THEN TRUE ELSE DefinitelyBlockedAt(p.lines, index - 1)
      [] p.tag = "BlockAfter" ->
            IF index = NumLetters(p.lines) THEN TRUE ELSE DefinitelyBlockedAt(p.lines, index)
      [] p.tag = "BlockBetween" ->
            IF index = NumLetters(p.first) THEN TRUE
            ELSE IF index < NumLetters(p.first) THEN DefinitelyBlockedAt(p.first, index)
            ELSE DefinitelyBlockedAt(p.second, index - NumLetters(p.first) - 1)
      [] p.tag = "Compound" ->
            \A k \in 1..Len(p.possibilities) : DefinitelyBlockedAt(p.possibilities[k], index)

RECURSIVE DefiniteWords(_)
DefiniteWords(p) ==
    CASE p.tag = "Impossible" -> <<>>
      [] p.tag = "Definite" -> p.line.Words
      [] p.tag = "Words" -> IF Len(p.allWords) = 1 THEN <<p.allWords[1]>> ELSE <<>>
      [] p.tag = "BlockBefore" -> DefiniteWords(p.lines)
      [] p.tag = "BlockAfter" -> DefiniteWords(p.lines)
      [] p.tag = "BlockBetween" -> DefiniteWords(p.first) \o DefiniteWords(p.second)
      [] p.tag = "Compound" -> <<>>

RECURSIVE FirstOrNull(_)
RECURSIVE CompoundFirstOrNull(_, _)
CompoundFirstOrNull(possibilities, k) ==
    IF k > Len(possibilities) THEN <<>>
    ELSE LET f == FirstOrNull(possibilities[k])
         IN IF f # <<>> THEN f ELSE CompoundFirstOrNull(possibilities, k + 1)

FirstOrNull(p) ==
    CASE p.tag = "Impossible" -> <<>>
      [] p.tag = "Definite" -> <<p.line>>
      [] p.tag = "Words" ->
            IF Len(p.allWords) = 0 THEN <<>>
            ELSE <<ConcreteLine(p.allWords[1], <<p.allWords[1]>>)>>
      [] p.tag = "BlockBefore" ->
            LET c == FirstOrNull(p.lines) IN
            IF c = <<>> THEN <<>>
            ELSE <<ConcreteLine(<<kBlocked>> \o c[1].Line, c[1].Words)>>
      [] p.tag = "BlockAfter" ->
            LET c == FirstOrNull(p.lines) IN
            IF c = <<>> THEN <<>>
            ELSE <<ConcreteLine(c[1].Line \o <<kBlocked>>, c[1].Words)>>
      [] p.tag = "BlockBetween" ->
            LET f == FirstOrNull(p.first)
                s == FirstOrNull(p.second)
            IN IF f = <<>> \/ s = <<>> THEN <<>>
               ELSE <<ConcreteLine(f[1].Line \o <<kBlocked>> \o s[1].Line,
                                   f[1].Words \o s[1].Words)>>
      [] p.tag = "Compound" -> CompoundFirstOrNull(p.possibilities, 1)

(***************************************************************************)
(* Filter: keep the lines whose cell `index` is the rune `constraint`.     *)
(***************************************************************************)
\* The entries of s at the (1-based) positions K, in order.
PickIdx(s, K) ==
    LET F[i \in 0..Len(s)] ==
            IF i = 0 THEN <<>>
            ELSE IF i \in K THEN Append(F[i - 1], s[i]) ELSE F[i - 1]
    IN F[Len(s)]

\* The loop that copies the kept words and counts the preferred ones among them.
WordsKeep(w, K) ==
    MakeWords(PickIdx(w.allWords, K),
              Cardinality({k \in K : k - 1 < w.obscureIdx}),
              NumLetters(w))

WordsFilter(w, constraint, index) ==
    LET K == {k \in 1..Len(w.allWords) : At(w.allWords[k], index) = constraint} IN
    IF constraint = kBlocked THEN MakeImpossible(NumLetters(w))
    ELSE IF MaxPossibilities(w) > 0 /\ K = 1..Len(w.allWords) THEN w
    ELSE WordsKeep(w, K)

DefiniteFilter(d, constraint, index) ==
    IF constraint = At(d.line.Line, index) THEN d ELSE MakeImpossible(NumLetters(d))

RECURSIVE Filter(_, _, _)
BlockBeforeFilter(b, constraint, index) ==
    IF index = 0
    THEN IF constraint = kBlocked THEN b ELSE MakeImpossible(NumLetters(b))
    ELSE BlockBeforeBuild(b, Filter(b.lines, constraint, index - 1))

BlockAfterFilter(b, constraint, index) ==
    IF index = NumLetters(b.lines)
    THEN IF constraint = kBlocked THEN b ELSE MakeImpossible(NumLetters(b))
    ELSE BlockAfterBuild(b, Filter(b.lines, constraint, index))

BlockBetweenFilter(b, constraint, index) ==
    IF index = NumLetters(b.first)
    THEN IF constraint = kBlocked THEN b ELSE MakeImpossible(NumLetters(b))
    ELSE IF index < NumLetters(b.first)
    THEN BlockBetweenBuild(b, Filter(b.first, constraint, index), b.second)
    ELSE BlockBetweenBuild(b, b.first,
                           Filter(b.second, constraint, index - NumLetters(b.first) - 1))

\* The non-Impossible entries of fs from position `from` (1-based) on.
Possible(fs, from) ==
    LET NotImpossible(f) == ~isImpossible(f)
    IN SelectSeq(SubSeq(fs, from, Len(fs)), NotImpossible)

\* Faulty variant of CompoundFilter: the unchanged children before the first changed
\* one are not copied into the result.
CompoundFilterDropsPrefix(c, constraint, index) ==
    LET n == Len(c.possibilities)
        fs == [k \in 1..n |-> Filter(c.possibilities[k], constraint, index)]
        changed == {k \in 1..n : fs[k] # c.possibilities[k]}
    IN IF changed = {} THEN c
       ELSE MakeCompound(Possible(fs, Min(changed)), NumLetters(c))

CompoundFilter(c, constraint, index) ==
    LET n == Len(c.possibilities)
        fs == [k \in 1..n |-> Filter(c.possibilities[k], constraint, index)]
        changed == {k \in 1..n : fs[k] # c.possibilities[k]}
    IN IF changed = {} THEN c
       ELSE LET ip == Min(changed)
                filtered == SubSeq(c.possibilities, 1, ip - 1) \o Possible(fs, ip)
            IN MakeCompound(filtered, NumLetters(c))

Filter(p, constraint, index) ==
    CASE p.tag = "Impossible" -> p
      [] p.tag = "Definite" -> DefiniteFilter(p, constraint, index)
      [] p.tag = "Words" -> WordsFilter(p, constraint, index)
      [] p.tag = "BlockBefore" -> BlockBeforeFilter(p, constraint, index)
      [] p.tag = "BlockAfter" -> BlockAfterFilter(p, constraint, index)
      [] p.tag = "BlockBetween" -> BlockBetweenFilter(p, constraint, index)
      [] p.tag = "Compound" -> CompoundFilter(p, constraint, index)

(***************************************************************************)
(* FilterAny: keep the lines whose cell `index` is in the CharSet.         *)
(***************************************************************************)
\* Faulty variant of WordsFilterAny: the 26-of-27 short-circuit does not ask whether
\* the missing rune is the blocked cell.
WordsFilterAnyAnyTwentySix(w, constraint, index) ==
    LET K == {k \in 1..Len(w.allWords) : Contains(constraint, At(w.allWords[k], index))} IN
    IF IsFull(constraint) \/ Count(constraint) + 1 = Capacity(constraint) THEN w
    ELSE IF w.letterMasks # <<>> /\ At(w.letterMasks, index).bits # {}
            /\ ContainsAll(constraint, At(w.letterMasks, index))
    THEN w
    ELSE IF K = 1..Len(w.allWords) THEN w
    ELSE WordsKeep(w, K)

WordsFilterAny(w, constraint, index) ==
    LET K == {k \in 1..Len(w.allWords) : Contains(constraint, At(w.allWords[k], index))} IN
    IF IsFull(constraint)
       \/ (~Contains(constraint, kBlocked) /\ Count(constraint) + 1 = Capacity(constraint))
    THEN w
    ELSE IF w.letterMasks # <<>> /\ At(w.letterMasks, index).bits # {}
            /\ ContainsAll(constraint, At(w.letterMasks, index))
    THEN w
    ELSE IF K = 1..Len(w.allWords) THEN w
    ELSE WordsKeep(w, K)

DefiniteFilterAny(d, constraint, index) ==
    IF IsFull(constraint) THEN d
    ELSE IF Contains(constraint, At(d.line.Line, index)) THEN d
    ELSE MakeImpossible(NumLetters(d))

RECURSIVE FilterAny(_, _, _)
BlockBeforeFilterAny(b, constraint, index) ==
    IF IsFull(constraint) THEN b
    ELSE IF index = 0
    THEN IF Contains(constraint, kBlocked) THEN b ELSE MakeImpossible(NumLetters(b))
    ELSE BlockBeforeBuild(b, FilterAny(b.lines, constraint, index - 1))

BlockAfterFilterAny(b, constraint, index) ==
    IF IsFull(constraint) THEN b
    ELSE IF index = NumLetters(b.lines)
    THEN IF Contains(constraint, kBlocked) THEN b ELSE MakeImpossible(NumLetters(b))
    ELSE BlockAfterBuild(b, FilterAny(b.lines, constraint, index))

BlockBetweenFilterAny(b, constraint, index) ==
    IF IsFull(constraint) THEN b
    ELSE IF index = NumLetters(b.first)
    THEN IF Contains(constraint, kBlocked) THEN b ELSE MakeImpossible(NumLetters(b))
    ELSE IF index < NumLetters(b.first)
    THEN BlockBetweenBuild(b, FilterAny(b.first, constraint, index), b.second)
    ELSE BlockBetweenBuild(b, b.first,
                           FilterAny(b.second, constraint, index - NumLetters(b.first) - 1))

CompoundFilterAny(c, constraint, index) ==
    LET n == Len(c.possibilities)
        fs == [k \in 1..n |-> FilterAny(c.possibilities[k], constraint, index)]
        changed == {k \in 1..n : fs[k] # c.possibilities[k]}
    IN IF IsFull(constraint) \/ changed = {} THEN c
       ELSE LET ip == Min(changed)
                kept == Possible(fs, ip)
                filtered == SubSeq(c.possibilities, 1, ip - 1)
                            \o FlattenSeq([k \in 1..Len(kept) |->
                                   IF isCompound(kept[k]) THEN kept[k].possibilities
                                   ELSE <<kept[k]>>])
            IN IF Len(filtered) = 0 THEN MakeImpossible(NumLetters(c))
               ELSE IF Len(filtered) = 1 THEN filtered[1]
               ELSE MakeCompound(filtered, NumLetters(c))

FilterAny(p, constraint, index) ==
    CASE p.tag = "Impossible" -> p
      [] p.tag = "Definite" -> DefiniteFilterAny(p, constraint, index)
      [] p.tag = "Words" -> WordsFilterAny(p, constraint, index)
      [] p.tag = "BlockBefore" -> BlockBeforeFilterAny(p, constraint, index)
      [] p.tag = "BlockAfter" -> BlockAfterFilterAny(p, constraint, index)
      [] p.tag = "BlockBetween" -> BlockBetweenFilterAny(p, constraint, index)
      [] p.tag = "Compound" -> CompoundFilterAny(p, constraint, index)

(***************************************************************************)
(* RemoveWordOptions: drop the lines that realise one of `words`.          *)
(* Compound.RemoveWordOptions starts its result as the slice               *)
(* c.possibilities[:i] and appends to it: the slice keeps the capacity of  *)
(* c.possibilities, so each append writes into the receiver's own array.   *)
(* RemoveWordOptionsReceiver is the value the receiver holds afterwards.   *)
(***************************************************************************)
\* Faulty variant of WordsRemoveWordOptions: only the first listed word is removed.
WordsRemoveWordOptionsFirstOnly(w, words) ==
    LET needsFiltering == \E k \in 1..Len(words) :
            Len(words[k]) = NumLetters(w) /\ SeqContains(w.allWords, words[k])
        hits == {k \in 1..Len(w.allWords) : SeqContains(words, w.allWords[k])}
        K == (1..Len(w.allWords)) \ (IF hits = {} THEN {} ELSE {Min(hits)})
    IN IF ~needsFiltering THEN w ELSE WordsKeep(w, K)

WordsRemoveWordOptions(w, words) ==
    LET needsFiltering == \E k \in 1..Len(words) :
            Len(words[k]) = NumLetters(w) /\ SeqContains(w.allWords, words[k])
        K == {k \in 1..Len(w.allWords) : ~SeqContains(words, w.allWords[k])}
    IN IF ~needsFiltering THEN w ELSE WordsKeep(w, K)

DefiniteRemoveWordOptions(d, words) ==
    IF \E k \in 1..Len(words) :
           Len(words[k]) = NumLetters(d) /\ SeqContains(d.line.Words, words[k])
    THEN MakeImpossible(NumLetters(d))
    ELSE d

RECURSIVE RemoveWordOptions(_, _)
BlockBeforeRemoveWordOptions(b, words) ==
    BlockBeforeBuild(b, RemoveWordOptions(b.lines, words))

BlockAfterRemoveWordOptions(b, words) ==
    BlockAfterBuild(b, RemoveWordOptions(b.lines, words))

BlockBetweenRemoveWordOptions(b, words) ==
    BlockBetweenBuild(b, RemoveWordOptions(b.first, words),
                         RemoveWordOptions(b.second, words))

CompoundRemoveWordOptions(c, words) ==
    LET n == Len(c.possibilities)
        fs == [k \in 1..n |-> RemoveWordOptions(c.possibilities[k], words)]
        changed == {k \in 1..n : fs[k] # c.possibilities[k]}
    IN IF changed = {} THEN c
       ELSE LET i == Min(changed)
                maybeFiltered == SubSeq(c.possibilities, 1, i - 1) \o Possible(fs, i)
            IN MakeCompound(maybeFiltered, NumLetters(c))

RemoveWordOptions(p, words) ==
    CASE p.tag = "Impossible" -> p
      [] p.tag = "Definite" -> DefiniteRemoveWordOptions(p, words)
      [] p.tag = "Words" -> WordsRemoveWordOptions(p, words)
      [] p.tag = "BlockBefore" -> BlockBeforeRemoveWordOptions(p, words)
      [] p.tag = "BlockAfter" -> BlockAfterRemoveWordOptions(p, words)
      [] p.tag = "BlockBetween" -> BlockBetweenRemoveWordOptions(p, words)
      [] p.tag = "Compound" -> CompoundRemoveWordOptions(p, words)

RECURSIVE RemoveWordOptionsReceiver(_, _)
CompoundRemoveWordOptionsReceiver(c, words) ==
    LET n == Len(c.possibilities)
        fs == [k \in 1..n |-> RemoveWordOptions(c.possibilities[k], words)]
        after == [k \in 1..n |-> RemoveWordOptionsReceiver(c.possibilities[k], words)]
        changed == {k \in 1..n : fs[k] # c.possibilities[k]}
    IN IF changed = {} THEN c
       ELSE LET i == Min(changed)
                appended == Possible(fs, i)
            IN IF i - 1 > 0
               THEN \* the appends overwrite the array from slot i on
                    [c EXCEPT !.possibilities =
                        [k \in 1..n |->
                            IF k >= i /\ k < i + Len(appended) THEN appended[k - i + 1]
                            ELSE after[k]]]
               ELSE \* maybeFiltered stays nil: the appends allocate a new array
                    [c EXCEPT !.possibilities = after]

RemoveWordOptionsReceiver(p, words) ==
    CASE p.tag = "Impossible" -> p
      [] p.tag = "Definite" -> p
      [] p.tag = "Words" -> p
      [] p.tag = "BlockBefore" ->
            [p EXCEPT !.lines = RemoveWordOptionsReceiver(p.lines, words)]
      [] p.tag = "BlockAfter" ->
            [p EXCEPT !.lines = RemoveWordOptionsReceiver(p.lines, words)]
      [] p.tag = "BlockBetween" ->
            [p EXCEPT !.first = RemoveWordOptionsReceiver(p.first, words),
                      !.second = RemoveWordOptionsReceiver(p.second, words)]
      [] p.tag = "Compound" -> CompoundRemoveWordOptionsReceiver(p, words)

(***************************************************************************)
(* MakeChoice: a ChoiceStep, or Panic where the Go code panics.            *)
(***************************************************************************)
Panic == [panic |-> TRUE]

ChoiceStep(choice, remaining) ==
    [panic |-> FALSE, Choice |-> choice, Remaining |-> remaining]

WordsMakeChoice(w) ==
    IF MaxPossibilities(w) <= 1 THEN Panic
    ELSE LET half == Len(w.allWords) \div 2
             w1 == SubSeq(w.allWords, 1, half)
             w2 == SubSeq(w.allWords, half + 1, Len(w.allWords))
             w1Idx == IF w.obscureIdx < Len(w1) THEN w.obscureIdx ELSE Len(w1)
             w2Idx == IF w.obscureIdx < Len(w1) THEN 0 ELSE w.obscureIdx - Len(w1)
         IN ChoiceStep(MakeWords(w1, w1Idx, NumLetters(w)),
                       MakeWords(w2, w2Idx, NumLetters(w)))

RECURSIVE MakeChoice(_)
BlockBeforeMakeChoice(b) ==
    LET c == MakeChoice(b.lines) IN
    IF c.panic THEN Panic
    ELSE ChoiceStep([tag |-> "BlockBefore", lines |-> c.Choice],
                    [tag |-> "BlockBefore", lines |-> c.Remaining])

BlockAfterMakeChoice(b) ==
    LET c == MakeChoice(b.lines) IN
    IF c.panic THEN Panic
    ELSE ChoiceStep([tag |-> "BlockAfter", lines |-> c.Choice],
                    [tag |-> "BlockAfter", lines |-> c.Remaining])

BlockBetweenMakeChoice(b) ==
    IF MaxPossibilities(b.first) > MaxPossibilities(b.second)
    THEN LET firstChoice == MakeChoice(b.first) IN
         IF firstChoice.panic THEN Panic
         ELSE ChoiceStep(
                [tag |-> "BlockBetween", first |-> firstChoice.Choice, second |-> b.second],
                [tag |-> "BlockBetween", first |-> firstChoice.Remaining, second |-> b.second])
    ELSE LET secondChoice == MakeChoice(b.second) IN
         IF secondChoice.panic THEN Panic
         ELSE ChoiceStep(
                [tag |-> "BlockBetween", first |-> b.first, second |-> secondChoice.Choice],
                [tag |-> "BlockBetween", first |-> b.first, second |-> secondChoice.Remaining])

\* Faulty variant of CompoundMakeChoice: the split may take every child (the loop does
\* not keep the right side non-empty).
CompoundMakeChoiceUnguarded(c) ==
    IF Len(c.possibilities) <= 1 \/ MaxPossibilities(c) <= 1 THEN Panic
    ELSE LET n == Len(c.possibilities)
             half == MaxPossibilities(c) \div 2
             acc == [i \in 1..n |->
                        SumSeq([k \in 1..i |-> MaxPossibilities(c.possibilities[k])])]
             breaks == {i \in 0..(n - 1) : acc[i + 1] >= half}
             splitIdx == IF breaks = {} THEN 1 ELSE Min(breaks) + 1
         IN ChoiceStep(MakeCompound(SubSeq(c.possibilities, 1, splitIdx), NumLetters(c)),
                       MakeCompound(SubSeq(c.possibilities, splitIdx + 1, n), NumLetters(c)))

CompoundMakeChoice(c) ==
    IF Len(c.possibilities) <= 1 \/ MaxPossibilities(c) <= 1 THEN Panic
    ELSE LET n == Len(c.possibilities)
             total == MaxPossibilities(c)
             half == total \div 2
             acc == [i \in 1..n |->
                        SumSeq([k \in 1..i |-> MaxPossibilities(c.possibilities[k])])]
             \* i (0-based) breaks the loop when acc >= half and i+1 < n
             breaks == {i \in 0..(n - 1) : acc[i + 1] >= half /\ i + 1 < n}
             splitIdx == IF breaks = {} THEN 1 ELSE Min(breaks) + 1
         IN ChoiceStep(MakeCompound(SubSeq(c.possibilities, 1, splitIdx), NumLetters(c)),
                       MakeCompound(SubSeq(c.possibilities, splitIdx + 1, n), NumLetters(c)))

\* Faulty variant of MakeChoice: a Definite returns itself on both sides instead of
\* panicking.
MakeChoiceDefiniteReturns(p) ==
    CASE p.tag = "Impossible" -> Panic
      [] p.tag = "Definite" -> ChoiceStep(p, p)
      [] p.tag = "Words" -> WordsMakeChoice(p)
      [] p.tag = "BlockBefore" -> BlockBeforeMakeChoice(p)
      [] p.tag = "BlockAfter" -> BlockAfterMakeChoice(p)
      [] p.tag = "BlockBetween" -> BlockBetweenMakeChoice(p)
      [] p.tag = "Compound" -> CompoundMakeChoice(p)

MakeChoice(p) ==
    CASE p.tag = "Impossible" -> Panic
      [] p.tag = "Definite" -> Panic
      [] p.tag = "Words" -> WordsMakeChoice(p)
      [] p.tag = "BlockBefore" -> BlockBeforeMakeChoice(p)
      [] p.tag = "BlockAfter" -> BlockAfterMakeChoice(p)
      [] p.tag = "BlockBetween" -> BlockBetweenMakeChoice(p)
      [] p.tag = "Compound" -> CompoundMakeChoice(p)

(***************************************************************************)
(* The algebra as a state machine: pl is the PossibleLines a caller holds, *)
(* last records the operation just applied to it (its receiver before and  *)
(* after the call, its arguments and its result).                          *)
(*                                                                         *)
(* Inputs.  Words: cat cot car dog dot, cart dart.                         *)
(***************************************************************************)
MaxOps == 2

cat == <<99, 97, 116>>
cot == <<99, 111, 116>>
car == <<99, 97, 114>>
dog == <<100, 111, 103>>
dot == <<100, 111, 116>>
cart == <<99, 97, 114, 116>>
dart == <<100, 97, 114, 116>>

\* Lines of one word, as MakeWordsFromPreferredAndObscure builds them.
Atoms3 ==
    {MakeWordsFromPreferredAndObscure(pr, ob, 3) :
        pr \in {<<>>, <<cat>>, <<cat, cot, car>>}, ob \in {<<>>, <<dog, dot>>}}

S4Lines == MakeCompound(<<MakeWords(<<cat, cot, car>>, 3, 3), MakeWords(<<dog, dot>>, 2, 3)>>, 3)

InitialLines ==
    Atoms3
    \cup {S4Lines}
    \cup {MakeCompound(<<a, b>>, 3) :
             a \in {MakeDefinite(ConcreteLine(cat, <<cat>>)), MakeWords(<<dog, dot>>, 0, 3)},
             b \in Atoms3}
    \cup {MakeCompound(<<MakeWords(<<cat, cot>>, 2, 3), b, MakeWords(<<car, dog>>, 1, 3)>>, 3) :
             b \in {MakeDefinite(ConcreteLine(dot, <<dot>>)), MakeWords(<<dot, cot>>, 1, 3)}}
    \cup {MakeCompound(<<MakeWords(<<cart, dart>>, 1, 4), MakeBlockBefore(a),
                         MakeBlockAfter(MakeWords(<<cat, dot>>, 1, 3))>>, 4) :
             a \in {MakeWords(<<cot, dog>>, 1, 3), MakeDefinite(ConcreteLine(cat, <<cat>>))}}
    \cup {MakeBlockBetween(a, b) :
             a \in {MakeWords(<<cat, cot>>, 2, 3), MakeDefinite(ConcreteLine(car, <<car>>))},
             b \in {MakeCompound(<<MakeWords(<<dog, dot>>, 0, 3),
                                   MakeDefinite(ConcreteLine(cat, <<cat>>))>>, 3),
                    MakeWords(<<cart, dart>>, 1, 4)}}
    \cup {MakeDefinite(ConcreteLine(cat \o <<kBlocked>> \o dog, <<cat, dog>>)),
          MakeDefinite(ConcreteLine(<<kBlocked>> \o cat, <<cat>>))}

\* Runes a caller filters by: the blocked cell, letters of the words, a letter of none.
Runes == {kBlocked, 97, 111, 122}

Letters == {r - minChar : r \in (minChar + 1)..maxChar}

CharSetOf(bits) == [bits |-> bits, count |-> OnesCount32(bits)]

\* Constraint sets: all 27, the 26 letters, 26 with the blocked cell, and small ones.
Constraints ==
    {CharSetOf(b) : b \in {Letters \cup {0}, Letters, (Letters \cup {0}) \ {111 - minChar},
                           {0}, {111 - minChar}, {97 - minChar, 116 - minChar}}}

WordLists == {<<cat>>, <<dot>>, <<cot, dog>>, <<cart, car>>}

Accumulators == {CharSetOf(b) : b \in {{}, Letters, (Letters \cup {0}) \ {97 - minChar}}}

Init ==
    /\ ctx = "live"
    /\ stdout = <<>>
    /\ sets = <<>>
    /\ pl \in InitialLines
    /\ last = [op |-> "none", n |-> 0]
    /\ generator = [gridSize |-> 0, commonWords |-> <<>>, obscureWords |-> <<>>]
    /\ frames = <<>>
    /\ yielded = <<>>
    /\ outcome = "returned"

\* a panic ends the program: no operation follows it
Panicked == last.op = "MakeChoice panics"

DoFilter ==
    /\ ~Panicked
    /\ last.n < MaxOps
    /\ \E constraint \in Runes, index \in 0..(NumLetters(pl) - 1) :
         LET result == Filter(pl, constraint, index) IN
         /\ last' = [op |-> "Filter", n |-> last.n + 1, before |-> pl, after |-> pl,
                     constraint |-> constraint, index |-> index, result |-> result]
         /\ pl' = result
    /\ UNCHANGED <<searchVars, ctx, stdout, sets>>

DoFilterAny ==
    /\ ~Panicked
    /\ last.n < MaxOps
    /\ \E constraint \in Constraints, index \in 0..(NumLetters(pl) - 1) :
         LET result == FilterAny(pl, constraint, index) IN
         /\ last' = [op |-> "FilterAny", n |-> last.n + 1, before |-> pl, after |-> pl,
                     constraint |-> constraint, index |-> index, result |-> result]
         /\ pl' = result
    /\ UNCHANGED <<searchVars, ctx, stdout, sets>>

DoRemoveWordOptions ==
    /\ ~Panicked
    /\ last.n < MaxOps
    /\ \E words \in WordLists :
         LET result == RemoveWordOptions(pl, words)
             after == RemoveWordOptionsReceiver(pl, words)
         IN /\ last' = [op |-> "RemoveWordOptions", n |-> last.n + 1, before |-> pl,
                        after |-> after, words |-> words, result |-> result]
            /\ pl' \in {result, after}
    /\ UNCHANGED <<searchVars, ctx, stdout, sets>>

DoMakeChoice ==
    /\ ~Panicked
    /\ last.n < MaxOps
    /\ MaxPossibilities(pl) > 1
    /\ LET step == MakeChoice(pl) IN
       /\ last' = [op |-> "MakeChoice", n |-> last.n + 1, before |-> pl, after |-> pl,
                   result |-> step]
       /\ pl' \in {step.Choice, step.Remaining}
    /\ UNCHANGED <<searchVars, ctx, stdout, sets>>

\* MakeChoice called against its contract, on a value with at most one line
DoMakeChoiceOnDecided ==
    /\ ~Panicked
    /\ last.n < MaxOps
    /\ MaxPossibilities(pl) <= 1
    /\ last' = [op |-> IF MakeChoice(pl) = Panic THEN "MakeChoice panics"
                       ELSE "MakeChoice returns",
                n |-> last.n + 1, before |-> pl, after |-> pl,
                result |-> MakeChoice(pl)]
    /\ pl' = pl
    /\ UNCHANGED <<searchVars, ctx, stdout, sets>>

DoCharsAt ==
    /\ ~Panicked
    /\ last.n < MaxOps
    /\ \E accumulate \in Accumulators, index \in 0..(NumLetters(pl) - 1) :
         LET r == CharsAtBoth(pl, accumulate, index) IN
         /\ last' = [op |-> "CharsAt", n |-> last.n + 1, before |-> pl, after |-> r.recv,
                     accumulate |-> accumulate, index |-> index, result |-> r.acc]
         /\ pl' = r.recv
    /\ UNCHANGED <<searchVars, ctx, stdout, sets>>

Next ==
    \/ DoFilter
    \/ DoFilterAny
    \/ DoRemoveWordOptions
    \/ DoMakeChoice
    \/ DoMakeChoiceOnDecided
    \/ DoCharsAt

Spec == Init /\ [][Next]_vars

(***************************************************************************)
(* Properties of the algebra (checked under Spec).                         *)
(***************************************************************************)
Range(s) == {s[k] : k \in 1..Len(s)}

BagOfSeq(s) == [x \in Range(s) |-> Cardinality({k \in 1..Len(s) : s[k] = x})]

\* The lines of `lines` whose cell `index` satisfies the set of runes `allowed`.
LinesWithCellIn(lines, index, allowed) ==
    LET Keep(l) == At(l.Line, index) \in allowed IN SelectSeq(lines, Keep)

\* The lines of `lines` that realise no word of `words`.
LinesWithoutWords(lines, words) ==
    LET Keep(l) == \A k \in 1..Len(l.Words) : ~SeqContains(words, l.Words[k])
    IN SelectSeq(lines, Keep)

\* C4: filter(ch, i) iterates exactly the receiver's lines whose i-th cell is ch, in
\* the receiver's order; the Compound of (cat, cot, car) and (dog, dot) filtered by
\* 'o' at 1 iterates cot, dog, dot.
C4_FilterExact ==
    /\ last.op = "Filter" =>
         Iterate(last.result)
           = LinesWithCellIn(Iterate(last.before), last.index, {last.constraint})
    /\ Range(Iterate(Filter(S4Lines, 111, 1)))
         = {ConcreteLine(w, <<w>>) : w \in {cot, dog, dot}}

C4_Witness ==
    /\ last.op = "Filter"
    /\ last.before = S4Lines
    /\ last.constraint = 111
    /\ last.index = 1
    /\ Len(Iterate(last.result)) = 3

\* C5: filterAny(S, i) iterates exactly the receiver's lines whose i-th cell is in S,
\* and with S = {ch} the same lines as filter(ch, i), whichever short-circuit applies.
C5_FilterAnyExact ==
    last.op = "FilterAny" =>
      /\ Iterate(last.result)
           = LinesWithCellIn(Iterate(last.before), last.index,
                             {r \in minChar..maxChar : Contains(last.constraint, r)})
      /\ \A ch \in minChar..maxChar :
           last.constraint.bits = {ch - minChar} =>
             Iterate(last.result) = Iterate(Filter(last.before, ch, last.index))

\* A Words whose mask for the index is cached, filtered to a proper non-empty part.
C5_Witness ==
    /\ last.op = "FilterAny"
    /\ last.before.tag = "Words"
    /\ last.before.letterMasks # <<>>
    /\ At(last.before.letterMasks, last.index).bits # {}
    /\ Len(Iterate(last.result)) > 0
    /\ Len(Iterate(last.result)) < Len(Iterate(last.before))

\* C6: makeChoice on a receiver with maxPossibilities > 1 returns two parts, each with
\* maxPossibilities >= 1, whose lines together are the receiver's lines as a multiset.
C6_MakeChoiceSplits ==
    last.op = "MakeChoice" =>
      /\ ~last.result.panic
      /\ MaxPossibilities(last.result.Choice) >= 1
      /\ MaxPossibilities(last.result.Remaining) >= 1
      /\ BagOfSeq(Iterate(last.result.Choice) \o Iterate(last.result.Remaining))
           = BagOfSeq(Iterate(last.before))

C6_Witness ==
    /\ last.op = "MakeChoice"
    /\ last.before.tag = "Compound"
    /\ Len(last.before.possibilities) >= 3
    /\ Len(Iterate(last.result.Choice)) >= 2
    /\ Len(Iterate(last.result.Remaining)) >= 2

\* C7: removeWordOptions(W) iterates exactly the receiver's lines that realise no word
\* of W.
C7_RemoveWordOptionsExact ==
    last.op = "RemoveWordOptions" =>
      Iterate(last.result) = LinesWithoutWords(Iterate(last.before), last.words)

\* C8: removeWordOptions(W) applied to its own result returns that result.
C8_RemoveWordOptionsIdempotent ==
    last.op = "RemoveWordOptions" =>
      RemoveWordOptions(last.result, last.words) = last.result

C8_Witness ==
    /\ last.op = "RemoveWordOptions"
    /\ last.before.tag = "Compound"
    /\ last.result # last.before
    /\ Len(Iterate(last.result)) >= 2

\* C9: after any operation the receiver iterates the lines it iterated before.
C9_ReceiverUnchanged ==
    last.op # "none" => Iterate(last.after) = Iterate(last.before)

\* C10: every rune charsAt adds to the accumulator is the i-th cell of a line of the
\* receiver.
C10_CharsAtSound ==
    last.op = "CharsAt" =>
      \A bitPos \in last.result.bits \ last.accumulate.bits :
        \E k \in 1..Len(Iterate(last.before)) :
          At(Iterate(last.before)[k].Line, last.index) = bitPos + minChar

C10_Witness ==
    /\ last.op = "CharsAt"
    /\ last.before.tag = "Compound"
    /\ Cardinality(last.result.bits \ last.accumulate.bits) >= 2

(***************************************************************************)
(* Further properties of the algebra.                                      *)
(***************************************************************************)
\* C11: for the value held in every reachable state, every position i in
\* [0, NumLetters) and every rune ch, Filter(ch, i) is not Impossible if and
\* only if ch is in the set CharsAt adds to an empty accumulator at i.
C11_FilterCharsAtConsistent ==
    \A index \in 0..(NumLetters(pl) - 1) : \A ch \in Runes :
        ~isImpossible(Filter(pl, ch, index))
            <=> Contains(CharsAt(pl, NewCharSet, index), ch)

\* C11 witness: an operation has produced a Compound with a block variant
\* below it, and at one position one rune survives Filter and another does not.
C11_Witness ==
    /\ last.n > 0
    /\ pl.tag = "Compound"
    /\ \E k \in 1..Len(pl.possibilities) :
         pl.possibilities[k].tag \in {"BlockBefore", "BlockAfter", "BlockBetween"}
    /\ \E index \in 0..(NumLetters(pl) - 1) : \E ch1, ch2 \in Runes :
         /\ ~isImpossible(Filter(pl, ch1, index))
         /\ Contains(CharsAt(pl, NewCharSet, index), ch1)
         /\ isImpossible(Filter(pl, ch2, index))
         /\ ~Contains(CharsAt(pl, NewCharSet, index), ch2)

(***************************************************************************)
(* The grid search of src/WordGenLib/Gen.cs.  A line is a tuple of runes,  *)
(* a ScoredLine carries the three scores GenerateGrid sorts by, a          *)
(* GridState holds the candidate ScoredLines of every column (Down) and    *)
(* every row (Across).  The C# iterators are lazy: a frame of `frames' is  *)
(* one suspended iterator (or GenerateGrid itself, outermost), and an      *)
(* action runs the innermost one up to its next call, yield or return.     *)
(***************************************************************************)
BLOCKED == 96

gridSize == 5

Horizontal == "Horizontal"

Vertical == "Vertical"

ScoredLine(line, maxLength, numLetters, numLettersOfCommonWords) ==
    [Line |-> line, MaxLength |-> maxLength, NumLetters |-> numLetters,
     NumLettersOfCommonWords |-> numLettersOfCommonWords]

GridState(down, across) == [Down |-> down, Across |-> across]

FinalGrid(down, across) == [Down |-> down, Across |-> across]

\* the internal constructor: both lists keep the words no longer than the grid
Generator(size, common, obscure) ==
    LET Fits(w) == Len(w) <= size
    IN [gridSize |-> size,
        commonWords |-> SelectSeq(common, Fits),
        obscureWords |-> SelectSeq(obscure, Fits),
        \* built from the constructor's argument, not from the filtered field
        commonAndObscureWords |-> common \o SelectSeq(obscure, Fits)]

\* commonWordsByLength[n] / obscureWordsByLength[n]: the words of length n in
\* list order; the Dictionary has the key n only if there is such a word
WordsByLength(words, n) ==
    LET HasLength(w) == Len(w) = n IN SelectSeq(words, HasLength)

ContainsKey(words, n) == WordsByLength(words, n) # <<>>

Threw == [threw |-> TRUE, lines |-> <<>>]

Yielded(lines) == [threw |-> FALSE, lines |-> lines]

\* the lines "` + line" and "line + `" of every shorter line, interleaved
RECURSIVE BlockedAround(_)
BlockedAround(shorter) ==
    IF shorter = <<>> THEN <<>>
    ELSE LET line == Head(shorter) IN
         << [line EXCEPT !.Line = <<BLOCKED>> \o line.Line],
            [line EXCEPT !.Line = line.Line \o <<BLOCKED>>] >>
         \o BlockedAround(Tail(shorter))

\* firstHalf + ` + secondHalf for every pair, first half outermost
BlockedBetween(firstHalves, secondHalves) ==
    FlattenSeq([f \in 1..Len(firstHalves) |->
        [s \in 1..Len(secondHalves) |->
            LET firstHalf == firstHalves[f]
                secondHalf == secondHalves[s]
            IN ScoredLine(firstHalf.Line \o <<BLOCKED>> \o secondHalf.Line,
                          IF firstHalf.MaxLength >= secondHalf.MaxLength
                            THEN firstHalf.MaxLength ELSE secondHalf.MaxLength,
                          firstHalf.NumLetters + secondHalf.NumLetters,
                          firstHalf.NumLettersOfCommonWords
                            + secondHalf.NumLettersOfCommonWords)]])

\* AllPossibleLines past its two guards: the words of exactly maxLength, the
\* shorter lines with a blocked cell before or after, and the pairs of lines
\* around a blocked cell (for (i = 3; i < gridSize - 3; ++i): the bound and
\* the second length come from the grid size, not from maxLength)
RECURSIVE AllPossibleLines(_, _)
LinesOfLength(gen, maxLength) ==
    IF ~ContainsKey(gen.commonWords, maxLength) THEN Threw
    ELSE IF ~ContainsKey(gen.obscureWords, maxLength) THEN Threw
    ELSE
      LET commonOfLength == WordsByLength(gen.commonWords, maxLength)
          obscureOfLength == WordsByLength(gen.obscureWords, maxLength)
          common == [k \in 1..Len(commonOfLength) |->
                       ScoredLine(commonOfLength[k], maxLength, maxLength, maxLength)]
          obscure == [k \in 1..Len(obscureOfLength) |->
                       ScoredLine(obscureOfLength[k], maxLength, maxLength, 0)]
          shorter == AllPossibleLines(gen, maxLength - 1)
          splits == [k \in 1..(IF gen.gridSize - 6 > 0 THEN gen.gridSize - 6 ELSE 0) |->
                       LET i == k + 2 IN
                       [first |-> AllPossibleLines(gen, i),
                        second |-> AllPossibleLines(gen, gen.gridSize - (i + 1))]]
      IN IF shorter.threw THEN Threw
         ELSE IF \E k \in 1..Len(splits) : splits[k].first.threw \/ splits[k].second.threw
           THEN Threw
         ELSE Yielded(common \o obscure \o BlockedAround(shorter.lines)
                \o FlattenSeq([k \in 1..Len(splits) |->
                     BlockedBetween(splits[k].first.lines, splits[k].second.lines)]))

\* a variant whose lower guard lets two-letter words through
AllPossibleLinesFromTwo(gen, maxLength) ==
    IF maxLength > gen.gridSize THEN Threw
    ELSE IF maxLength < 2 THEN Yielded(<<>>)
    ELSE LinesOfLength(gen, maxLength)

\* AllPossibleLines, enumerated to the end: the lines in yield order, or Threw
\* when the enumeration raises (maxLength over the grid size, or a word list
\* with no word of a length it is asked for)
AllPossibleLines(gen, maxLength) ==
    IF maxLength > gen.gridSize THEN Threw
    ELSE IF maxLength < 3 THEN Yielded(<<>>)
    ELSE LinesOfLength(gen, maxLength)

\* AllPossibleLines as the lazy iterator it is: what a consumer that asks for
\* up to `count' lines gets.  `lines' are the lines yielded in order and
\* `status' is "more" when all `count' were yielded, else "end" when the
\* iterator finished, "threw" when it raised.  An inner iterator is asked
\* only for as many lines as the outer one can still pass on.
First(lines, count) == SubSeq(lines, 1, IF count < Len(lines) THEN count ELSE Len(lines))

Taken(lines, status) == [lines |-> lines, status |-> status]

\* firstHalf + ` + secondHalf, first half outermost, while the budget lasts:
\* the second iterator is run afresh for every first half, so an endless or
\* raising second iterator is never left
TakePairs(firstHalves, secondHalves, count) ==
    IF firstHalves.lines = <<>> THEN Taken(<<>>, firstHalves.status)
    ELSE IF secondHalves.status = "threw"
      THEN Taken(BlockedBetween(<<firstHalves.lines[1]>>, secondHalves.lines), "threw")
    ELSE IF secondHalves.status = "more"
      THEN Taken(BlockedBetween(<<firstHalves.lines[1]>>, secondHalves.lines), "more")
    ELSE LET pairs == BlockedBetween(firstHalves.lines, secondHalves.lines) IN
         IF Len(pairs) >= count THEN Taken(First(pairs, count), "more")
         ELSE Taken(pairs, firstHalves.status)

RECURSIVE TakeAllPossibleLines(_, _, _)
\* the loop for (i = 3; i < gridSize - 3; ++i) from index i on
RECURSIVE TakeSplits(_, _, _)
TakeSplits(gen, i, count) ==
    IF ~(i < gen.gridSize - 3) THEN Taken(<<>>, "end")
    ELSE IF gen.gridSize - (i + 1) < 3 THEN Taken(<<>>, "threw")
    ELSE LET pairs == TakePairs(TakeAllPossibleLines(gen, i, count),
                                TakeAllPossibleLines(gen, gen.gridSize - (i + 1), count),
                                count)
         IN IF pairs.status # "end" THEN pairs
            ELSE LET rest == TakeSplits(gen, i + 1, count - Len(pairs.lines))
                 IN Taken(pairs.lines \o rest.lines, rest.status)

TakeAllPossibleLines(gen, maxLength, count) ==
    IF count = 0 THEN Taken(<<>>, "more")
    ELSE IF maxLength > gen.gridSize THEN Taken(<<>>, "threw")
    ELSE IF maxLength < 3 THEN Taken(<<>>, "end")
    ELSE IF ~ContainsKey(gen.commonWords, maxLength) THEN Taken(<<>>, "threw")
    ELSE
      LET commonOfLength == WordsByLength(gen.commonWords, maxLength)
          obscureOfLength == WordsByLength(gen.obscureWords, maxLength)
          common == [k \in 1..Len(commonOfLength) |->
                       ScoredLine(commonOfLength[k], maxLength, maxLength, maxLength)]
          obscure == [k \in 1..Len(obscureOfLength) |->
                       ScoredLine(obscureOfLength[k], maxLength, maxLength, 0)]
          words == common \o obscure
      IN IF Len(common) >= count THEN Taken(First(common, count), "more")
         ELSE IF obscure = <<>> THEN Taken(common, "threw")
         ELSE IF Len(words) >= count THEN Taken(First(words, count), "more")
         ELSE
           LET left == count - Len(words)
               shorter == TakeAllPossibleLines(gen, maxLength - 1, (left + 1) \div 2)
               around == BlockedAround(shorter.lines)
           IN IF Len(around) >= left THEN Taken(words \o First(around, left), "more")
              ELSE IF shorter.status = "threw" THEN Taken(words \o around, "threw")
              ELSE LET between == TakeSplits(gen, 3, left - Len(around))
                   IN Taken(words \o around \o between.lines, between.status)

\* the calls AllPossibleLines(maxLength) and the iterators below it have made
\* by the time `count' lines have been pulled, each as << caller's maxLength,
\* callee's maxLength >>: a foreach makes its call when it is reached
RECURSIVE CallsWhileTaking(_, _, _)
RECURSIVE CallsInSplits(_, _, _, _)
CallsInSplits(gen, maxLength, i, count) ==
    IF ~(i < gen.gridSize - 3) \/ gen.gridSize - (i + 1) < 3 THEN {}
    ELSE LET secondLength == gen.gridSize - (i + 1)
             firstHalves == TakeAllPossibleLines(gen, i, count)
             pairs == TakePairs(firstHalves,
                                TakeAllPossibleLines(gen, secondLength, count), count)
         IN {<<maxLength, i>>}
            \cup CallsWhileTaking(gen, i, count)
            \cup (IF firstHalves.lines = <<>> THEN {}
                  ELSE {<<maxLength, secondLength>>}
                       \cup CallsWhileTaking(gen, secondLength, count))
            \cup (IF pairs.status # "end" THEN {}
                  ELSE CallsInSplits(gen, maxLength, i + 1, count - Len(pairs.lines)))

CallsWhileTaking(gen, maxLength, count) ==
    IF count = 0 \/ maxLength > gen.gridSize \/ maxLength < 3 THEN {}
    ELSE IF ~ContainsKey(gen.commonWords, maxLength) THEN {}
    ELSE
      LET common == WordsByLength(gen.commonWords, maxLength)
          obscure == WordsByLength(gen.obscureWords, maxLength)
          words == common \o obscure
      IN IF Len(common) >= count \/ obscure = <<>> \/ Len(words) >= count THEN {}
         ELSE
           LET left == count - Len(words)
               shorter == TakeAllPossibleLines(gen, maxLength - 1, (left + 1) \div 2)
               around == BlockedAround(shorter.lines)
           IN {<<maxLength, maxLength - 1>>}
              \cup CallsWhileTaking(gen, maxLength - 1, (left + 1) \div 2)
              \cup (IF Len(around) >= left \/ shorter.status = "threw" THEN {}
                    ELSE CallsInSplits(gen, maxLength, 3, left - Len(around)))

\* GroupBy(l => l.Line).Select(grp => grp.First()): the first ScoredLine of
\* every distinct Line, in order of first appearance
RECURSIVE DistinctByLine(_, _)
DistinctByLine(lines, seen) ==
    IF lines = <<>> THEN <<>>
    ELSE IF Head(lines).Line \in seen THEN DistinctByLine(Tail(lines), seen)
    ELSE <<Head(lines)>> \o DistinctByLine(Tail(lines), seen \cup {Head(lines).Line})

\* the comparison GenerateGrid sorts by, before Reversed
Compare(x, y) ==
    IF x.MaxLength > y.MaxLength THEN 1
    ELSE IF x.MaxLength < y.MaxLength THEN -1
    ELSE (x.NumLetters + x.NumLettersOfCommonWords)
           - (y.NumLetters + y.NumLettersOfCommonWords)

\* the orders the random shuffle followed by the reversed sort can leave:
\* every arrangement of the lines in which no line precedes a greater one
RECURSIVE SortedShuffles(_)
SortedShuffles(lines) ==
    IF lines = {} THEN {<<>>}
    ELSE UNION {{<<m>> \o rest : rest \in SortedShuffles(lines \ {m})} :
                  m \in {x \in lines : \A y \in lines : Compare(x, y) >= 0}}

\* Faulty variant of Toggle: the direction stays what it was.
ToggleStays(direction) == direction

Toggle(direction) == IF direction = Vertical THEN Horizontal ELSE Vertical

AnyEmpty(axis) == \E k \in 1..Len(axis) : Len(axis[k]) = 0

\* a variant that filters nothing
PrefilterNothing(state, direction) == state

\* a variant that stores the filtered entries on the crossing axis
PrefilterStoresOnOtherAxis(state, direction) ==
    LET toFilter == IF direction = Horizontal THEN state.Across ELSE state.Down
        constraint == IF direction = Horizontal THEN state.Down ELSE state.Across
    IN IF AnyEmpty(toFilter) \/ AnyEmpty(constraint) THEN state
       ELSE
         LET available(x, y) ==
                 {At(constraint[x + 1][k].Line, y) : k \in 1..Len(constraint[x + 1])}
             filtered == [y1 \in 1..Len(toFilter) |->
                 LET Fits(line) == \A x \in 0..(Len(line.Line) - 1) :
                                      At(line.Line, x) \in available(x, y1 - 1)
                 IN SelectSeq(toFilter[y1], Fits)]
         IN IF direction = Horizontal
              THEN [state EXCEPT !.Down = filtered]
              ELSE [state EXCEPT !.Across = filtered]

\* Prefilter: keeps, in every entry y of the filtered axis, the lines whose
\* every cell x is a character some line of the crossing entry x has at y.
\* All lines have gridSize cells, so every available[(x, y)] read is one
\* that was filled.
Prefilter(state, direction) ==
    LET toFilter == IF direction = Horizontal THEN state.Across ELSE state.Down
        constraint == IF direction = Horizontal THEN state.Down ELSE state.Across
    IN IF AnyEmpty(toFilter) \/ AnyEmpty(constraint) THEN state
       ELSE
         LET available(x, y) ==
                 {At(constraint[x + 1][k].Line, y) : k \in 1..Len(constraint[x + 1])}
             filtered == [y1 \in 1..Len(toFilter) |->
                 LET Fits(line) == \A x \in 0..(Len(line.Line) - 1) :
                                      At(line.Line, x) \in available(x, y1 - 1)
                 IN SelectSeq(toFilter[y1], Fits)]
         IN IF direction = Horizontal
              THEN [state EXCEPT !.Across = filtered]
              ELSE [state EXCEPT !.Down = filtered]

\* Changed compares the number of candidates of every entry
Changed(before, after) ==
    \E i \in 1..Len(before.Down) :
        \/ Len(before.Down[i]) # Len(after.Down[i])
        \/ Len(before.Across[i]) # Len(after.Across[i])

\* the prefilter loop of AllPossibleGrids(root), run from pass number `tries'
\* to its end: the state it leaves and the number of passes it has made
RECURSIVE PrefilterLoop(_, _, _)
PrefilterLoop(root, tries, direction) ==
    IF ~(tries < 4) THEN [root |-> root, tries |-> tries]
    ELSE LET Pass(newState) ==
                 IF ~Changed(root, newState) /\ tries + 1 > 1
                   THEN [root |-> root, tries |-> tries + 1]
                   ELSE PrefilterLoop(newState, tries + 1, Toggle(direction))
         \* newState is computed once, then the rest of the pass runs on it
         IN CHOOSE after \in {Pass(newState) : newState \in {Prefilter(root, direction)}} : TRUE

\* UndecidedDown / UndecidedAcross: the 0-based indices with several candidates
Undecided(axis) ==
    LET RECURSIVE From(_)
        From(k) == IF k > Len(axis) THEN <<>>
                   ELSE (IF Len(axis[k]) > 1 THEN <<k - 1>> ELSE <<>>) \o From(k + 1)
    IN From(1)

\* the symmetry trim at the head of AllPossibleGrids(root, undecided, dir)
SameWordBothWays(optionAxis, oppositeAxis) ==
    \E i \in 1..Len(optionAxis) :
        /\ Len(optionAxis[i]) <= 1
        /\ Len(oppositeAxis[i]) <= 1
        /\ optionAxis[i][1].Line = oppositeAxis[i][1].Line

\* the crossing axis after the attempt is placed at `index': entry i keeps the
\* lines whose cell `index' is the attempt's cell i
AttemptOpposite(oppositeAxis, attempt, index) ==
    [i1 \in 1..Len(oppositeAxis) |->
        IF i1 <= Len(attempt.Line)
          THEN LET Agrees(option) == At(option.Line, index) = At(attempt.Line, i1 - 1)
               IN SelectSeq(oppositeAxis[i1], Agrees)
          ELSE oppositeAxis[i1]]

\* Faulty variant of NewRoot: the attempt is not stored, the entry keeps all its
\* options.
NewRootKeepsOptions(root, dir, attempt, index) ==
    LET oppositeAxis == IF dir = Horizontal THEN root.Down ELSE root.Across
        oppositeFinal == AttemptOpposite(oppositeAxis, attempt, index)
    IN IF dir = Horizontal THEN GridState(oppositeFinal, root.Across)
       ELSE GridState(root.Down, oppositeFinal)

NewRoot(root, dir, attempt, index) ==
    LET optionAxis == IF dir = Horizontal THEN root.Across ELSE root.Down
        oppositeAxis == IF dir = Horizontal THEN root.Down ELSE root.Across
        oppositeFinal == AttemptOpposite(oppositeAxis, attempt, index)
        optionFinal == [optionAxis EXCEPT ![index + 1] = <<attempt>>]
    IN IF dir = Horizontal THEN GridState(oppositeFinal, optionFinal)
       ELSE GridState(optionFinal, oppositeFinal)

\* frames
GenerateFrame(state) ==
    [kind |-> "GenerateGrid", pc |-> "prefilter", state |-> state,
     tries |-> 0, direction |-> Horizontal]

GridsFrame(root) ==
    [kind |-> "AllPossibleGrids", pc |-> "enter", root |-> root,
     tries |-> 0, direction |-> Horizontal]

BranchFrame(root, undecided, dir) ==
    [kind |-> "Branch", pc |-> "trim", root |-> root, undecided |-> undecided,
     dir |-> dir, u |-> 1, a |-> 1,
     \* history: the index whose attempt is being searched, and the grids
     \* the searches have yielded, each with the index it was yielded for
     index |-> -1, yieldedAt |-> {}]

Top == frames[Len(frames)]

Return == SubSeq(frames, 1, Len(frames) - 1)

Continue(frame) == [frames EXCEPT ![Len(frames)] = frame]

Call(frame, callee) == Append(Continue(frame), callee)

Running(kind, pc) ==
    /\ outcome = "running"
    /\ frames # <<>>
    /\ Top.kind = kind
    /\ Top.pc = pc

\* the words of the dictionaries below, as rune tuples (a = 97, b = 98, c = 99)
ab == <<97, 98>>

aba == <<97, 98, 97>>

ccc == <<99, 99, 99>>

abab == <<97, 98, 97, 98>>

cccc == <<99, 99, 99, 99>>

ababa == <<97, 98, 97, 98, 97>>

babab == <<98, 97, 98, 97, 98>>

aaaaa == <<97, 97, 97, 97, 97>>

bbbbb == <<98, 98, 98, 98, 98>>

ababab == <<97, 98, 97, 98, 97, 98>>

abcde == <<97, 98, 99, 100, 101>>

abcd == <<97, 98, 99, 100>>

abc == <<97, 98, 99>>

\* word lists that admit no grid: one with words of every length, one with a
\* single word as long as the grid, and the empty one
NoGridDictionaries ==
    { [common |-> <<abcde, abcd, abc>>, obscure |-> <<abcde, abcd, abc>>],
      [common |-> <<abcde>>, obscure |-> <<>>],
      [common |-> <<>>, obscure |-> <<>>] }

\* the word lists the generator is constructed with: one with both lists
\* equal (as Create builds them) and a word too short to be placed, one with
\* words in the obscure list only, one that has no common word of
\* length 4 and a word longer than the grid, and those that admit no grid
SearchDictionaries ==
    { [common |-> <<ababa, babab, abab, aba, ab>>,
       obscure |-> <<ababa, babab, abab, aba, ab>>],
      [common |-> <<ababa, aaaaa, cccc, ccc>>,
       obscure |-> <<ababa, aaaaa, bbbbb, cccc, ccc>>],
      [common |-> <<ababab, ababa, aba>>,
       obscure |-> <<ababa, abab, aba>>] } \cup NoGridDictionaries

\* GenerateGrid up to its prefilter loop: the deduplicated lines in one of
\* the orders the shuffle and sort can leave, the same list in all entries
SearchInit ==
    /\ ctx = "live"
    /\ stdout = <<>>
    /\ sets = <<>>
    /\ pl = MakeImpossible(0)
    /\ last = [op |-> "none", n |-> 0]
    /\ \E d \in SearchDictionaries :
         generator = Generator(gridSize, d.common, d.obscure)
    /\ yielded = <<>>
    /\ LET all == AllPossibleLines(generator, generator.gridSize) IN
       IF all.threw
         THEN /\ outcome = "threw"
              /\ frames = <<>>
         ELSE /\ outcome = "running"
              /\ \E possibleLines \in SortedShuffles(Range(DistinctByLine(all.lines, {}))) :
                   frames = << GenerateFrame(GridState(
                                 [k \in 1..generator.gridSize |-> possibleLines],
                                 [k \in 1..generator.gridSize |-> possibleLines])) >>

\* one pass of GenerateGrid's prefilter loop; leaving the loop starts the search
GeneratePrefilter ==
    /\ Running("GenerateGrid", "prefilter")
    /\ LET tries == Top.tries + 1
           newState == Prefilter(Top.state, Top.direction)
       IN IF ~Changed(Top.state, newState)
            THEN frames' = Call([Top EXCEPT !.pc = "foreach", !.tries = tries],
                                GridsFrame(Top.state))
            ELSE IF tries < 4
              THEN frames' = Continue([Top EXCEPT !.tries = tries, !.state = newState,
                                            !.direction = Toggle(Top.direction)])
              ELSE frames' = Call([Top EXCEPT !.pc = "foreach", !.tries = tries,
                                        !.state = newState,
                                        !.direction = Toggle(Top.direction)],
                                  GridsFrame(newState))
    /\ yielded' = <<>>
    /\ UNCHANGED <<generator, outcome, sets, pl, last, ctx, stdout>>

\* after the foreach GenerateGrid fills rows 0..3 from state.Across[k][Next(Length)]:
\* Next(0) is 0, and indexing an empty entry throws
FillThrows(state) == \E k \in 1..4 : Len(state.Across[k]) = 0

\* the search is exhausted: GenerateGrid leaves its foreach and fills the grid
GenerateDone ==
    /\ Running("GenerateGrid", "foreach")
    /\ frames' = <<>>
    /\ outcome' = IF FillThrows(Top.state) THEN "threw" ELSE "returned"
    /\ yielded' = <<>>
    /\ UNCHANGED <<generator, sets, pl, last, ctx, stdout>>

\* AllPossibleGrids(root), first guard: an unfillable entry prunes at once
GridsEnter ==
    /\ Running("AllPossibleGrids", "enter")
    /\ IF AnyEmpty(Top.root.Down) \/ AnyEmpty(Top.root.Across)
         THEN frames' = Return
         ELSE frames' = Continue([Top EXCEPT !.pc = "prefilter"])
    /\ yielded' = <<>>
    /\ UNCHANGED <<generator, outcome, sets, pl, last, ctx, stdout>>

\* one pass of the prefilter loop of AllPossibleGrids(root)
GridsPrefilter ==
    /\ Running("AllPossibleGrids", "prefilter")
    /\ LET tries == Top.tries + 1
           newState == Prefilter(Top.root, Top.direction)
       IN IF ~Changed(Top.root, newState) /\ tries > 1
            THEN frames' = Continue([Top EXCEPT !.pc = "decide", !.tries = tries])
            ELSE frames' = Continue([Top EXCEPT
                               !.pc = IF tries < 4 THEN "prefilter" ELSE "decide",
                               !.tries = tries, !.root = newState,
                               !.direction = Toggle(Top.direction)])
    /\ yielded' = <<>>
    /\ UNCHANGED <<generator, outcome, sets, pl, last, ctx, stdout>>

\* after the loop: the state is unfillable and the iterator ends
GridsPrune ==
    /\ Running("AllPossibleGrids", "decide")
    /\ AnyEmpty(Top.root.Down) \/ AnyEmpty(Top.root.Across)
    /\ frames' = Return
    /\ yielded' = <<>>
    /\ UNCHANGED <<generator, outcome, sets, pl, last, ctx, stdout>>

\* a grid passes up through every foreach ... yield return on the stack
PassedUp(stack, grid) ==
    [k \in 1..Len(stack) |->
        IF stack[k].kind = "Branch"
          THEN [stack[k] EXCEPT !.yieldedAt = stack[k].yieldedAt
                                   \cup {[index |-> stack[k].index, grid |-> grid]}]
          ELSE stack[k]]

\* after the loop: every entry is decided, the grid is yielded and the
\* iterator, resumed, ends
GridsYield ==
    /\ Running("AllPossibleGrids", "decide")
    /\ ~(AnyEmpty(Top.root.Down) \/ AnyEmpty(Top.root.Across))
    /\ Undecided(Top.root.Down) = <<>>
    /\ Undecided(Top.root.Across) = <<>>
    /\ yielded' = << FinalGrid([k \in 1..Len(Top.root.Down) |-> Top.root.Down[k][1]],
                               [k \in 1..Len(Top.root.Across) |-> Top.root.Across[k][1]]) >>
    /\ frames' = PassedUp(Return, yielded'[1])
    /\ UNCHANGED <<generator, outcome, sets, pl, last, ctx, stdout>>

\* undecidedAcross for Horizontal, undecidedDown for Vertical
UndecidedIn(root, dir) ==
    IF dir = Horizontal THEN Undecided(root.Across) ELSE Undecided(root.Down)

\* the direction the loop over dirs[(parity + i) % 2] branches on: the first
\* of the two that has an undecided entry
BranchDirection(root, parity) ==
    LET dirs == <<Horizontal, Vertical>>
        first == At(dirs, parity % 2)
        second == At(dirs, (parity + 1) % 2)
    IN IF UndecidedIn(root, first) # <<>> THEN first ELSE second

\* after the loop: some entry is undecided; the first of the two directions
\* (in the order the random parity gives) that has an undecided entry is
\* branched on, and only that one
GridsBranch ==
    /\ Running("AllPossibleGrids", "decide")
    /\ ~(AnyEmpty(Top.root.Down) \/ AnyEmpty(Top.root.Across))
    /\ Undecided(Top.root.Down) # <<>> \/ Undecided(Top.root.Across) # <<>>
    /\ \E parity \in {0, 1} :
         LET dir == BranchDirection(Top.root, parity)
         IN frames' = Call([Top EXCEPT !.pc = "branched"],
                           BranchFrame(Top.root, UndecidedIn(Top.root, dir), dir))
    /\ yielded' = <<>>
    /\ UNCHANGED <<generator, outcome, sets, pl, last, ctx, stdout>>

\* the branch iterator is exhausted: yield break
GridsBranched ==
    /\ Running("AllPossibleGrids", "branched")
    /\ frames' = Return
    /\ yielded' = <<>>
    /\ UNCHANGED <<generator, outcome, sets, pl, last, ctx, stdout>>

\* AllPossibleGrids(root, undecided, dir), the symmetry trim
BranchTrim ==
    /\ Running("Branch", "trim")
    /\ LET optionAxis == IF Top.dir = Horizontal THEN Top.root.Across ELSE Top.root.Down
           oppositeAxis == IF Top.dir = Horizontal THEN Top.root.Down ELSE Top.root.Across
       IN IF SameWordBothWays(optionAxis, oppositeAxis)
            THEN frames' = Return
            ELSE frames' = Continue([Top EXCEPT !.pc = "attempt"])
    /\ yielded' = <<>>
    /\ UNCHANGED <<generator, outcome, sets, pl, last, ctx, stdout>>

\* the next attempt of the two nested foreach loops: placed and searched
\* below when every crossing entry keeps a candidate, else skipped
BranchAttempt ==
    /\ Running("Branch", "attempt")
    /\ Top.u <= Len(Top.undecided)
    /\ LET index == Top.undecided[Top.u]
           optionAxis == IF Top.dir = Horizontal THEN Top.root.Across ELSE Top.root.Down
           oppositeAxis == IF Top.dir = Horizontal THEN Top.root.Down ELSE Top.root.Across
           options == optionAxis[index + 1]
           nextIndex == [Top EXCEPT !.u = Top.u + 1, !.a = 1]
       IN IF Len(options) = 1 THEN frames' = Continue(nextIndex)
          ELSE LET attempt == options[Top.a]
                   next == IF Top.a < Len(options) THEN [Top EXCEPT !.a = Top.a + 1]
                           ELSE nextIndex
               IN IF ~AnyEmpty(AttemptOpposite(oppositeAxis, attempt, index))
                    THEN frames' = Call([next EXCEPT !.index = index],
                                        GridsFrame(NewRoot(Top.root, Top.dir,
                                                           attempt, index)))
                    ELSE frames' = Continue(next)
    /\ yielded' = <<>>
    /\ UNCHANGED <<generator, outcome, sets, pl, last, ctx, stdout>>

\* every undecided index has been tried
BranchDone ==
    /\ Running("Branch", "attempt")
    /\ Top.u > Len(Top.undecided)
    /\ frames' = Return
    /\ yielded' = <<>>
    /\ UNCHANGED <<generator, outcome, sets, pl, last, ctx, stdout>>

SearchNext ==
    \/ GeneratePrefilter
    \/ GenerateDone
    \/ GridsEnter
    \/ GridsPrefilter
    \/ GridsPrune
    \/ GridsYield
    \/ GridsBranch
    \/ GridsBranched
    \/ BranchTrim
    \/ BranchAttempt
    \/ BranchDone

SearchSpec == SearchInit /\ [][SearchNext]_vars

\* GenerateGrid runs on one thread, to its end: a step that can be taken is taken
SearchFairSpec == SearchSpec /\ WF_vars(SearchNext)

(***************************************************************************)
(* The pattern enumerator on its own: a consumer pulls lines one at a time *)
(* out of AllPossibleLines(maxLength) of a Generator of some grid size.    *)
(* The iterator is the only frame; `yielded' holds the line just pulled.   *)
(***************************************************************************)
MaxYield == 10

GridSizes == {5, 6, 7}

LinesFrame(maxLength) ==
    [kind |-> "AllPossibleLines", pc |-> "iterate", maxLength |-> maxLength, count |-> 0,
     \* the calls made so far, each << caller's maxLength, callee's maxLength >>
     calls |-> {}]

LinesInit ==
    /\ ctx = "live"
    /\ stdout = <<>>
    /\ sets = <<>>
    /\ pl = MakeImpossible(0)
    /\ last = [op |-> "none", n |-> 0]
    /\ \E size \in GridSizes : \E d \in SearchDictionaries :
         generator = Generator(size, d.common, d.obscure)
    /\ \E maxLength \in 3..generator.gridSize : frames = << LinesFrame(maxLength) >>
    /\ yielded = <<>>
    /\ outcome = "running"

\* MoveNext reaches a yield return
LinesYield ==
    /\ Running("AllPossibleLines", "iterate")
    /\ Top.count < MaxYield
    /\ LET taken == TakeAllPossibleLines(generator, Top.maxLength, Top.count + 1) IN
       /\ Len(taken.lines) = Top.count + 1
       /\ yielded' = << taken.lines[Top.count + 1] >>
       /\ frames' = Continue([Top EXCEPT !.count = Top.count + 1,
                                         !.calls = CallsWhileTaking(generator, Top.maxLength,
                                                                    Top.count + 1)])
    /\ UNCHANGED <<generator, outcome, sets, pl, last, ctx, stdout>>

\* MoveNext runs off the end of the iterator
LinesEnd ==
    /\ Running("AllPossibleLines", "iterate")
    /\ Top.count < MaxYield
    /\ LET taken == TakeAllPossibleLines(generator, Top.maxLength, Top.count + 1) IN
       /\ Len(taken.lines) = Top.count
       /\ taken.status = "end"
    /\ frames' = <<>>
    /\ outcome' = "returned"
    /\ yielded' = <<>>
    /\ UNCHANGED <<generator, sets, pl, last, ctx, stdout>>

\* MoveNext raises
LinesThrow ==
    /\ Running("AllPossibleLines", "iterate")
    /\ Top.count < MaxYield
    /\ LET taken == TakeAllPossibleLines(generator, Top.maxLength, Top.count + 1) IN
       /\ Len(taken.lines) = Top.count
       /\ taken.status = "threw"
    /\ frames' = <<>>
    /\ outcome' = "threw"
    /\ yielded' = <<>>
    /\ UNCHANGED <<generator, sets, pl, last, ctx, stdout>>

LinesNext ==
    \/ LinesYield
    \/ LinesEnd
    \/ LinesThrow

LinesSpec == LinesInit /\ [][LinesNext]_vars

\* the shape the constructors promise, at every depth of a value
RECURSIVE WellFormed(_)
WellFormed(p) ==
    CASE p.tag = "Impossible" -> TRUE
      [] p.tag = "Definite" -> TRUE
      [] p.tag = "Words" -> Len(p.allWords) >= 2
      [] p.tag = "BlockBefore" -> WellFormed(p.lines)
      [] p.tag = "BlockAfter" -> WellFormed(p.lines)
      [] p.tag = "BlockBetween" -> WellFormed(p.first) /\ WellFormed(p.second)
      [] p.tag = "Compound" ->
            /\ Len(p.possibilities) >= 2
            /\ \A k \in 1..Len(p.possibilities) :
                   /\ ~isImpossible(p.possibilities[k])
                   /\ ~isCompound(p.possibilities[k])
                   /\ WellFormed(p.possibilities[k])

\* C19: after any sequence of constructor calls and operations every Compound
\* has at least 2 children, none Impossible or Compound, and every Words has
\* at least 2 words; this holds of the value held, of the receiver and of
\* both sides of a choice.
C19_CompoundAndWordsHaveTwo ==
    /\ WellFormed(pl)
    /\ last.n > 0 => WellFormed(last.before) /\ WellFormed(last.after)
    /\ last.op = "MakeChoice" =>
          WellFormed(last.result.Choice) /\ WellFormed(last.result.Remaining)

\* an operation has cut a Compound down to a smaller Compound, and one has
\* cut a Words value down
C19_Witness ==
    /\ last.n > 0
    /\ last.op \in {"Filter", "FilterAny", "RemoveWordOptions", "MakeChoice"}
    /\ last.before.tag = "Compound"
    /\ pl.tag = "Compound"
    /\ pl # last.before
    /\ \E k \in 1..Len(pl.possibilities) :
          /\ pl.possibilities[k].tag = "Words"
          /\ ~SeqContains(last.before.possibilities, pl.possibilities[k])

\* C20: MakeChoice on a value whose MaxPossibilities is at most 1 panics and
\* returns no ChoiceStep.
C20_MakeChoiceOnDecidedPanics ==
    /\ MaxPossibilities(pl) <= 1 => MakeChoice(pl) = Panic
    /\ last.op # "MakeChoice returns"

\* MakeChoice has panicked on a value an operation left, a Definite behind a
\* blocked cell
C20_Witness ==
    /\ Panicked
    /\ last.n > 1
    /\ last.before.tag \in {"BlockBefore", "BlockAfter", "BlockBetween"}
    /\ MaxPossibilities(last.before) = 1
    /\ last.result = Panic

(***************************************************************************)
(* The word-position query (Gen.cs): Generator.CompatibleWords(template)   *)
(* over the index wordsByLetterPositon the constructor builds.  A template *)
(* cell is a letter, null or '?'.  last records the call and what it gave. *)
(***************************************************************************)
\* a char? that is null
Null == 0

QuestionMark == 63

TemplateCells == {Null, QuestionMark, 97, 98, 99}

\* the templates of 0..size cells
Templates(size) == UNION {[1..n -> TemplateCells] : n \in 0..size}

\* wordsByLetterPositon[i]: the dictionary from the letter at position i to
\* the words that have it there; a letter no word has at i is not a key
WordsByLetterPosition(gen, i, ch) ==
    {w \in Range(gen.commonAndObscureWords) : Len(w) > i /\ At(w, i) = ch}

LetterPositionContainsKey(gen, i, ch) == WordsByLetterPosition(gen, i, ch) # {}

\* the order of an ImmutableSortedSet<string> over lower-case words
RECURSIVE WordBefore(_, _)
WordBefore(v, w) ==
    IF v = <<>> THEN w # <<>>
    ELSE IF w = <<>> THEN FALSE
    ELSE IF Head(v) # Head(w) THEN Head(v) < Head(w)
    ELSE WordBefore(Tail(v), Tail(w))

RECURSIVE SortedWords(_)
SortedWords(words) ==
    IF words = {} THEN <<>>
    ELSE LET first == CHOOSE v \in words : \A w \in words \ {v} : WordBefore(v, w)
         IN <<first>> \o SortedWords(words \ {first})

QueryThrew == [threw |-> TRUE, words |-> <<>>]

QueryReturned(words) == [threw |-> FALSE, words |-> words]

\* the loop over the template from cell i on; candidates is <<>> while null,
\* otherwise << the set so far >>
RECURSIVE CompatibleWordsFrom(_, _, _, _)
CompatibleWordsFrom(gen, template, i, candidates) ==
    IF ~(i < Len(template))
      THEN IF candidates = <<>> THEN QueryReturned(gen.commonAndObscureWords)
           ELSE QueryReturned(SortedWords(candidates[1]))
    ELSE LET t == At(template, i) IN
         IF t = Null \/ t = QuestionMark
           THEN CompatibleWordsFrom(gen, template, i + 1, candidates)
         ELSE IF ~LetterPositionContainsKey(gen, i, t) THEN QueryThrew
         ELSE LET possibleWords == WordsByLetterPosition(gen, i, t)
              IN CompatibleWordsFrom(gen, template, i + 1,
                    IF candidates = <<>> THEN <<possibleWords>>
                    ELSE <<candidates[1] \cap possibleWords>>)

CompatibleWords(gen, template) == CompatibleWordsFrom(gen, template, 0, <<>>)

\* the grid sizes the generator is constructed with
QueryGridSizes == {3, 4}

QueryInit ==
    /\ ctx = "live"
    /\ stdout = <<>>
    /\ sets = <<>>
    /\ pl = MakeImpossible(0)
    /\ last = [op |-> "none", n |-> 0]
    /\ \E size \in QueryGridSizes : \E d \in SearchDictionaries :
         generator = Generator(size, d.common, d.obscure)
    /\ frames = <<>>
    /\ yielded = <<>>
    /\ outcome = "returned"

\* generator.CompatibleWords(template), for a template of at most gridSize cells
DoCompatibleWords ==
    /\ \E template \in Templates(generator.gridSize) :
         last' = [op |-> "CompatibleWords", n |-> 1, template |-> template,
                  result |-> CompatibleWords(generator, template)]
    /\ UNCHANGED <<sets, pl, searchVars, ctx, stdout>>

QueryNext == DoCompatibleWords

QuerySpec == QueryInit /\ [][QueryNext]_vars

\* C27: for the value held, of any variant, and every position,
\* DefinitelyBlockedAt is true exactly when every line Iterate yields has the
\* blocked rune there.
C27_DefinitelyBlockedIffAllBlocked ==
    \A index \in 0..(NumLetters(pl) - 1) :
        DefinitelyBlockedAt(pl, index)
            <=> \A k \in 1..Len(Iterate(pl)) : At(Iterate(pl)[k].Line, index) = kBlocked

(***************************************************************************)
(* CharSet as a state machine: sets holds two CharSet objects, last the    *)
(* call just made on one of them.  The objects start empty or as the sets  *)
(* a run of Add calls leaves: every rune but three, with and without them. *)
(***************************************************************************)
\* the runes the calls are made with: two out of range, three in range
AddedRunes == {minChar - 1, minChar, minChar + 1, maxChar, maxChar + 1}

RECURSIVE AddEach(_, _)
AddEach(c, runes) ==
    IF runes = {} THEN c
    ELSE LET r == CHOOSE x \in runes : TRUE IN AddEach(Add(c, r), runes \ {r})

InitialCharSets ==
    {NewCharSet, AddEach(NewCharSet, (minChar..maxChar) \ AddedRunes)}

CharSetInit ==
    /\ ctx = "live"
    /\ stdout = <<>>
    /\ sets \in [1..2 -> InitialCharSets]
    /\ pl = MakeImpossible(0)
    /\ last = [op |-> "none", n |-> 0]
    /\ generator = [gridSize |-> 0, commonWords |-> <<>>, obscureWords |-> <<>>]
    /\ frames = <<>>
    /\ yielded = <<>>
    /\ outcome = "returned"

Called(op, x, err) == [op |-> op, n |-> 1, receiver |-> x, before |-> sets, err |-> err]

DoAdd ==
    /\ \E x \in 1..2, r \in AddedRunes :
         /\ sets' = [sets EXCEPT ![x] = Add(sets[x], r)]
         /\ last' = Called("Add", x, AddError(r))
    /\ UNCHANGED <<pl, searchVars, ctx, stdout>>

DoAddAll ==
    /\ \E x \in 1..2 :
         /\ sets' = [sets EXCEPT ![x] = AddAll(sets[x], sets[3 - x])]
         /\ last' = Called("AddAll", x, FALSE)
    /\ UNCHANGED <<pl, searchVars, ctx, stdout>>

DoIntersect ==
    /\ \E x \in 1..2 :
         /\ sets' = [sets EXCEPT ![x] = Intersect(sets[x], sets[3 - x])]
         /\ last' = Called("Intersect", x, FALSE)
    /\ UNCHANGED <<pl, searchVars, ctx, stdout>>

DoClear ==
    /\ \E x \in 1..2 :
         /\ sets' = [sets EXCEPT ![x] = Clear(sets[x])]
         /\ last' = Called("Clear", x, FALSE)
    /\ UNCHANGED <<pl, searchVars, ctx, stdout>>

\* the other object is dropped for a clone of the receiver
DoClone ==
    /\ \E x \in 1..2 :
         /\ sets' = [sets EXCEPT ![3 - x] = Clone(sets[x])]
         /\ last' = Called("Clone", x, FALSE)
    /\ UNCHANGED <<pl, searchVars, ctx, stdout>>

CharSetNext ==
    \/ DoAdd
    \/ DoAddAll
    \/ DoIntersect
    \/ DoClear
    \/ DoClone

CharSetSpec == CharSetInit /\ [][CharSetNext]_vars

(***************************************************************************)
(* The command-line programs around the Go generator: main of              *)
(* src/cmd/xwcli/main.go and the later main of src/unnamed/part_001.       *)
(* main ranges over PossibleGrids(ctx) under a deadline.  The generator    *)
(* package is not among the sources; PossibleGrids is modelled from the    *)
(* specification: it works towards its next grid, consults the signal      *)
(* between propagation passes and before each recursive call, returns when *)
(* it finds it fired, and hands every finished grid to the loop body.      *)
(* frames = <<main, PossibleGrids>>; yielded holds the grid handed over,   *)
(* marked with what the context was at that moment.                        *)
(***************************************************************************)
MaxGrids == 2

Programs == {"xwcli", "part_001"}

\* -first, -all, or neither (main then asks after every grid)
Modes == {"first", "all", "ask"}

MainFrame(program, mode) ==
    [kind |-> "main", pc |-> "range", program |-> program, mode |-> mode]

PossibleGridsFrame(grids) ==
    [kind |-> "PossibleGrids", pc |-> "consult", grids |-> grids]

CliInit ==
    /\ pl = MakeImpossible(0)
    /\ last = [op |-> "none", n |-> 0]
    /\ generator = [gridSize |-> 0, commonWords |-> <<>>, obscureWords |-> <<>>]
    /\ \E program \in Programs, mode \in Modes, grids \in 0..MaxGrids :
         frames = << MainFrame(program, mode), PossibleGridsFrame(grids) >>
    /\ yielded = <<>>
    /\ outcome = "running"
    /\ ctx = "live"
    /\ stdout = <<>>
    /\ sets = <<>>

InLoop(mainPc, searchPc) ==
    /\ outcome = "running"
    /\ Len(frames) = 2
    /\ frames[1].pc = mainPc
    /\ frames[2].pc = searchPc

\* the timer of context.WithTimeout goes off
DeadlineFires ==
    /\ outcome = "running"
    /\ ctx = "live"
    /\ ctx' = "done"
    /\ UNCHANGED <<sets, pl, last, searchVars, stdout>>

\* the search consults the signal: fired, it returns and the range loop ends;
\* otherwise it goes on working
SearchConsults ==
    /\ InLoop("range", "consult")
    /\ IF ctx = "done"
         THEN frames' = << [frames[1] EXCEPT !.pc = "done"] >>
         ELSE frames' = [frames EXCEPT ![2].pc = "work"]
    /\ yielded' = <<>>
    /\ UNCHANGED <<sets, pl, last, generator, outcome, ctx, stdout>>

\* a pass or a recursive call done, the next consultation is due
SearchWorks ==
    /\ InLoop("range", "work")
    /\ frames' = [frames EXCEPT ![2].pc = "consult"]
    /\ UNCHANGED <<sets, pl, last, generator, yielded, outcome, ctx, stdout>>

\* the work has completed a grid: it is handed to the loop body
SearchYields ==
    /\ InLoop("range", "work")
    /\ frames[2].grids > 0
    /\ yielded' = << [grid |-> frames[2].grids, ctx |-> ctx] >>
    /\ frames' = [frames EXCEPT ![2].grids = frames[2].grids - 1,
                                ![1].pc = IF frames[1].program = "part_001"
                                            THEN "check" ELSE "print"]
    /\ UNCHANGED <<sets, pl, last, generator, outcome, ctx, stdout>>

\* the work has shown that there is no further grid: the range loop ends
SearchExhausted ==
    /\ InLoop("range", "work")
    /\ frames[2].grids = 0
    /\ frames' = << [frames[1] EXCEPT !.pc = "done"] >>
    /\ yielded' = <<>>
    /\ UNCHANGED <<sets, pl, last, generator, outcome, ctx, stdout>>

\* part_001 only: if err := ctx.Err(); err != nil { ...; break }
MainChecksContext ==
    /\ InLoop("check", "work")
    /\ IF ctx = "done"
         THEN /\ frames' = << [frames[1] EXCEPT !.pc = "done"] >>
              /\ stdout' = Append(stdout, [line |-> "Context error"])
         ELSE /\ frames' = [frames EXCEPT ![1].pc = "print"]
              /\ stdout' = stdout
    /\ UNCHANGED <<sets, pl, last, generator, yielded, outcome, ctx>>

\* fmt.Println(grid.Repr()), then -first breaks, -all continues, else main asks
MainPrints ==
    /\ InLoop("print", "work")
    /\ stdout' = Append(stdout, [line |-> "grid", grid |-> yielded[1].grid,
                                 received |-> yielded[1].ctx])
    /\ frames' = IF frames[1].mode = "first" THEN << [frames[1] EXCEPT !.pc = "done"] >>
                 ELSE IF frames[1].mode = "all"
                   THEN [frames EXCEPT ![1].pc = "range", ![2].pc = "consult"]
                 ELSE [frames EXCEPT ![1].pc = "ask"]
    /\ UNCHANGED <<sets, pl, last, generator, yielded, outcome, ctx>>

\* fmt.Scanln(&input): "n" breaks, anything else continues
MainAsks ==
    /\ InLoop("ask", "work")
    /\ \E input \in {"n", ""} :
         frames' = IF input = "n" THEN << [frames[1] EXCEPT !.pc = "done"] >>
                   ELSE [frames EXCEPT ![1].pc = "range", ![2].pc = "consult"]
    /\ UNCHANGED <<sets, pl, last, generator, yielded, outcome, ctx, stdout>>

\* after the loop: fmt.Println("Done"), the deferred cancel(), exit
MainDone ==
    /\ outcome = "running"
    /\ Len(frames) = 1
    /\ frames[1].kind = "main"
    /\ frames[1].pc = "done"
    /\ stdout' = Append(stdout, [line |-> "Done"])
    /\ ctx' = "done"
    /\ frames' = <<>>
    /\ outcome' = "returned"
    /\ UNCHANGED <<sets, pl, last, generator, yielded>>

CliNext ==
    \/ DeadlineFires
    \/ SearchConsults
    \/ SearchWorks
    \/ SearchYields
    \/ SearchExhausted
    \/ MainChecksContext
    \/ MainPrints
    \/ MainAsks
    \/ MainDone

CliSpec == CliInit /\ [][CliNext]_vars

(***************************************************************************)
(* Properties of the grid search.                                          *)
(***************************************************************************)
\* the maximal runs of non-blocked cells of a line, left to right
RECURSIVE RunsFrom(_, _)
RunsFrom(line, run) ==
    IF line = <<>> THEN (IF run = <<>> THEN <<>> ELSE <<run>>)
    ELSE IF Head(line) = BLOCKED
      THEN (IF run = <<>> THEN <<>> ELSE <<run>>) \o RunsFrom(Tail(line), <<>>)
      ELSE RunsFrom(Tail(line), Append(run, Head(line)))

Runs(line) == RunsFrom(line, <<>>)

\* the rows and the columns of a yielded grid, as lines
GridLines(grid) ==
    [k \in 1..Len(grid.Across) |-> grid.Across[k].Line]
    \o [k \in 1..Len(grid.Down) |-> grid.Down[k].Line]

\* every word realised in a yielded grid, rows first
GridWords(grid) ==
    FlattenSeq([k \in 1..Len(GridLines(grid)) |-> Runs(GridLines(grid)[k])])

SuppliedWords == Range(generator.commonWords) \cup Range(generator.obscureWords)

\* C1: whenever the search yields a grid, the grid has gridSize rows and
\* gridSize columns of gridSize cells, and every maximal run of non-blocked
\* cells in every row and every column is a word of the supplied word lists
\* and is at least 3 letters long.
C1_YieldedRunsAreWords ==
    yielded # <<>> =>
        LET grid == yielded[1] IN
        /\ Len(grid.Across) = generator.gridSize
        /\ Len(grid.Down) = generator.gridSize
        /\ \A k \in 1..Len(GridLines(grid)) :
             LET line == GridLines(grid)[k] IN
             /\ Len(line) = generator.gridSize
             /\ \A r \in 1..Len(Runs(line)) :
                  /\ Runs(line)[r] \in SuppliedWords
                  /\ Len(Runs(line)[r]) >= 3

\* C1 witness: a grid is yielded that has a blocked cell and a three-letter
\* word next to it, while the word lists also hold a shorter word.
C1_Witness ==
    /\ yielded # <<>>
    /\ \E k \in 1..Len(GridLines(yielded[1])) :
         \E r \in 1..Len(Runs(GridLines(yielded[1])[k])) :
            Len(Runs(GridLines(yielded[1])[k])[r]) = 3
    /\ \E w \in SuppliedWords : Len(w) < 3

\* C2: whenever the search yields a grid, cell j of the across line of row i
\* is cell i of the down line of column j, for every i and j.
C2_AcrossDownAgree ==
    yielded # <<>> =>
        LET grid == yielded[1] IN
        \A i, j \in 0..(generator.gridSize - 1) :
            At(grid.Across[i + 1].Line, j) = At(grid.Down[j + 1].Line, i)

\* C2 witness: a grid is yielded whose columns are not its rows, so that the
\* agreement is between two different families of lines.
C2_Witness ==
    /\ yielded # <<>>
    /\ \E k \in 1..generator.gridSize :
         yielded[1].Across[k].Line # yielded[1].Down[k].Line

\* C3: whenever the search yields a grid, no word appears twice among the
\* words of its rows and columns.
C3_NoWordTwice ==
    yielded # <<>> =>
        LET words == GridWords(yielded[1]) IN
        \A a, b \in 1..Len(words) : a # b => words[a] # words[b]

\* entry by entry, `after' holds no line that `before' does not hold
NeverLooser(before, after) ==
    /\ Len(after.Down) = Len(before.Down)
    /\ Len(after.Across) = Len(before.Across)
    /\ \A k \in 1..Len(before.Down) :
         /\ Range(after.Down[k]) \subseteq Range(before.Down[k])
         /\ Len(after.Down[k]) <= Len(before.Down[k])
    /\ \A k \in 1..Len(before.Across) :
         /\ Range(after.Across[k]) \subseteq Range(before.Across[k])
         /\ Len(after.Across[k]) <= Len(before.Across[k])

\* the GridState a prefiltering frame works on
StateOf(frame) == IF frame.kind = "GenerateGrid" THEN frame.state ELSE frame.root

\* C12: every step a prefilter loop takes (one tightening pass, and so the
\* whole loop) leaves in every row and column entry a subset of the lines
\* the entry held before; no line is ever added.
C12_PrefilterMonotone ==
    [][(/\ frames # <<>>
        /\ frames' # <<>>
        /\ Len(frames') = Len(frames)
        /\ Top.kind \in {"GenerateGrid", "AllPossibleGrids"})
       => NeverLooser(StateOf(Top), StateOf(frames'[Len(frames')]))]_vars

\* C12 witness: a pass of GenerateGrid's loop has removed lines from a row
\* entry while the column entry still holds them all.
C12_Witness ==
    /\ frames # <<>>
    /\ Top.kind = "GenerateGrid"
    /\ Top.tries >= 1
    /\ \E k \in 1..Len(Top.state.Across) :
         /\ Len(Top.state.Across[k]) >= 1
         /\ Len(Top.state.Across[k]) < Len(Top.state.Down[k])

\* the prefilter loop as an operator is the loop the actions run pass by pass
PrefilterLoopIsTheLoop ==
    [][(Running("AllPossibleGrids", "prefilter") /\ Len(frames') = Len(frames))
       => LET next == frames'[Len(frames')] IN
          IF next.pc = "prefilter"
            THEN PrefilterLoop(next.root, next.tries, next.direction)
                   = PrefilterLoop(Top.root, Top.tries, Top.direction)
            ELSE /\ next.root = PrefilterLoop(Top.root, Top.tries, Top.direction).root
                 /\ next.tries = PrefilterLoop(Top.root, Top.tries, Top.direction).tries]_vars

\* C13: for every state s the search hands to its propagation, propagating
\* the propagated state again gives that state or that state after one more
\* tightening pass, and neither propagation makes more than four passes.
C13_PropagateIsClosure ==
    Running("AllPossibleGrids", "enter") =>
        \A once \in {PrefilterLoop(Top.root, 0, Horizontal)} :
        \A twice \in {PrefilterLoop(once.root, 0, Horizontal)} :
           /\ once.tries <= 4
           /\ twice.tries <= 4
           /\ twice.root \in {once.root, Prefilter(once.root, Horizontal),
                              Prefilter(once.root, Vertical)}

\* a frame that runs a prefilter loop, and whether it is still in it
Propagates(frame) == frame.kind \in {"GenerateGrid", "AllPossibleGrids"}

InPrefilterLoop(frame) == frame.pc \in {"enter", "prefilter"}

\* C22: a propagation makes at least one and at most 4 passes, pass k targets
\* the rows for odd k and the columns for even k and leaves the other axis
\* alone, and a loop that has stopped before its 4th pass stopped right after
\* a pass that changed no entry.
C22_PropagationPasses ==
    /\ [](\A k \in 1..Len(frames) : Propagates(frames[k]) =>
            /\ frames[k].tries \in 0..4
            /\ InPrefilterLoop(frames[k]) =>
                 /\ frames[k].tries < 4
                 /\ frames[k].direction =
                      (IF frames[k].tries % 2 = 0 THEN Horizontal ELSE Vertical)
            /\ ~InPrefilterLoop(frames[k]) =>
                 /\ frames[k].tries >= 1
                 /\ frames[k].tries < 4 =>
                      ~Changed(StateOf(frames[k]),
                               Prefilter(StateOf(frames[k]), frames[k].direction)))
    /\ [][(/\ frames # <<>>
           /\ Propagates(Top)
           /\ Top.pc = "prefilter"
           /\ Len(frames') >= Len(frames))
          => LET after == StateOf(frames'[Len(frames)]) IN
             /\ frames'[Len(frames)].tries = Top.tries + 1
             /\ IF Top.direction = Horizontal THEN after.Down = StateOf(Top).Down
                ELSE after.Across = StateOf(Top).Across]_vars

\* C22 witness: one propagation has stopped after its 3rd pass, which changed
\* nothing, below one that ran into the cap of 4
C22_Witness ==
    /\ frames # <<>>
    /\ Top.kind = "AllPossibleGrids"
    /\ Top.pc = "decide"
    /\ Top.tries = 3
    /\ \E k \in 1..(Len(frames) - 1) : Propagates(frames[k]) /\ frames[k].tries = 4

\* the characters the lines of an entry admit at a position
CharsAtPosition(entry, position) == {At(entry[k].Line, position) : k \in 1..Len(entry)}

Consistent(state) ==
    \A i \in 0..(Len(state.Across) - 1) : \A j \in 0..(Len(state.Down) - 1) :
        CharsAtPosition(state.Across[i + 1], j)
            \cap CharsAtPosition(state.Down[j + 1], i) # {}

\* C23: whenever a propagation has returned a state without an empty entry,
\* every row i and column j admit a common character at their crossing.
C23_PropagatedStateIsConsistent ==
    \A k \in 1..Len(frames) :
        (/\ Propagates(frames[k])
         /\ ~InPrefilterLoop(frames[k])
         /\ ~AnyEmpty(StateOf(frames[k]).Down)
         /\ ~AnyEmpty(StateOf(frames[k]).Across))
        => Consistent(StateOf(frames[k]))

\* C23 witness: a propagation cut off at its 4th pass has returned a state
\* with undecided rows and undecided columns
C23_Witness ==
    /\ frames # <<>>
    /\ Top.kind = "AllPossibleGrids"
    /\ Top.pc = "decide"
    /\ Top.tries = 4
    /\ ~AnyEmpty(Top.root.Down)
    /\ ~AnyEmpty(Top.root.Across)
    /\ Undecided(Top.root.Down) # <<>>
    /\ Undecided(Top.root.Across) # <<>>

\* C24: once the search below one undecided index has yielded a grid, the
\* call starts no search for another undecided index.
C24_ReturnsAfterFirstYieldingIndex ==
    [][(Running("Branch", "attempt") /\ Len(frames') = Len(frames) + 1)
       => {y.index : y \in Top.yieldedAt} \subseteq {frames'[Len(frames)].index}]_vars

\* C25: the grids one search yields are pairwise distinct.
C25_NoGridYieldedTwice ==
    \A k \in 1..Len(frames) : frames[k].kind = "Branch" =>
        \A y, z \in frames[k].yieldedAt : y.grid = z.grid => y.index = z.index

\* C26: no grid the search yields has a row and the column of the same index
\* holding the same line.
C26_NoRowEqualsItsColumn ==
    yielded # <<>> =>
        \A i \in 1..Len(yielded[1].Across) :
            yielded[1].Across[i].Line # yielded[1].Down[i].Line

\* the recursive calls AllPossibleGrids(newRoot) that are open
SearchDepth ==
    Cardinality({k \in 1..Len(frames) : frames[k].kind = "AllPossibleGrids"}) - 1

UndecidedCount(state) == Len(Undecided(state.Down)) + Len(Undecided(state.Across))

\* the undecided rows and columns of the state GenerateGrid hands to the search
InitialUndecided == UndecidedCount(frames[1].state)

\* C28: every search ends, and the recursive calls open at any time are never
\* more than the undecided rows and columns of the state the search started
\* from, so never more than 2 * gridSize.
C28_SearchEndsWithinDepth ==
    /\ []((outcome = "running" /\ frames[1].pc = "foreach") =>
            /\ SearchDepth <= InitialUndecided
            /\ SearchDepth <= 2 * generator.gridSize
            \* every recursive call starts with fewer undecided entries than
            \* the state it was made from
            /\ \A k, m \in 1..Len(frames) :
                  (/\ k < m
                   /\ frames[k].kind = "AllPossibleGrids"
                   /\ frames[m].kind = "AllPossibleGrids")
                  => UndecidedCount(frames[m].root) < UndecidedCount(frames[k].root))
    /\ <>(outcome # "running")

\* C28 witness: three recursive calls are open
C28_Witness ==
    /\ outcome = "running"
    /\ frames[1].pc = "foreach"
    /\ SearchDepth = 3
    /\ Top.kind = "AllPossibleGrids"
    /\ Top.pc = "decide"

(***************************************************************************)
(* Properties of the pattern enumerator.                                   *)
(***************************************************************************)
\* where the enumeration is finite, the lines pulled so far are the first
\* lines of the whole enumeration
PulledLinesAreTheFirstLines ==
    (Running("AllPossibleLines", "iterate") /\ generator.gridSize <= 6) =>
        \A all \in {AllPossibleLines(generator, Top.maxLength)} :
            ~all.threw =>
                TakeAllPossibleLines(generator, Top.maxLength, Top.count).lines
                    = First(all.lines, Top.count)

\* C14: every line the enumerator yields for segment length L, in a generator
\* of any grid size N >= L, has exactly L cells, and each of its maximal runs
\* of non-blocked cells is a word of the word lists with at least 3 letters.
C14_LinesHaveTheLengthAskedFor ==
    (Running("AllPossibleLines", "iterate") /\ yielded # <<>>) =>
        /\ Len(yielded[1].Line) = Top.maxLength
        /\ \A r \in 1..Len(Runs(yielded[1].Line)) :
             /\ Runs(yielded[1].Line)[r] \in SuppliedWords
             /\ Len(Runs(yielded[1].Line)[r]) >= 3

\* C15: no line the enumerator yields has two blocked cells next to each other.
C15_NoTwoBlockedInARow ==
    (Running("AllPossibleLines", "iterate") /\ yielded # <<>>) =>
        \A k \in 1..(Len(yielded[1].Line) - 1) :
            ~(yielded[1].Line[k] = BLOCKED /\ yielded[1].Line[k + 1] = BLOCKED)

\* C16: the stream of grids is a function of the grid size, the word lists
\* and the seed.  The generator holds no seed (the draws come from
\* Random.Shared), so with the same grid size and word lists the direction
\* the search branches on, and with it the order of the grids, must not
\* depend on the draw.
C16_SameInputsSameStream ==
    [][GridsBranch =>
         BranchDirection(Top.root, 0) = BranchDirection(Top.root, 1)]_vars

\* the search meets an unfillable state: AllPossibleGrids(root) stands at one
\* of its two guards with an empty entry
AtUnfillable ==
    /\ outcome = "running"
    /\ Len(frames) > 0
    /\ Top.kind = "AllPossibleGrids"
    /\ Top.pc \in {"enter", "decide"}
    /\ AnyEmpty(Top.root.Down) \/ AnyEmpty(Top.root.Across)

\* from an unfillable state the search yields nothing and its iterator ends
UnfillableYieldsNothing ==
    [][AtUnfillable => (yielded' = <<>> /\ frames' = Return /\ outcome' = "running")]_vars

\* C18: a state with an empty entry after propagation yields no grid and the
\* search ends normally, so that a generator whose word lists admit no grid
\* (the empty lists among them) yields no grid and ends without an error.
C18_NoGridEndsNormally ==
    /\ UnfillableYieldsNothing
    /\ []([common |-> generator.commonWords, obscure |-> generator.obscureWords]
              \in NoGridDictionaries
           => (yielded = <<>> /\ outcome # "threw"))
(***************************************************************************)
(* Properties of the command-line programs.                                *)
(***************************************************************************)
\* C17: no grid that was handed to the loop body after the deadline had
\* fired is printed.
C17_NoGridPrintedAfterCancel ==
    \A k \in 1..Len(stdout) :
        stdout[k].line = "grid" => stdout[k].received = "live"

\* C29: every recursive call the pattern enumeration makes is for a strictly
\* smaller length (so that the enumeration ends after finitely many lines).
C29_CallsAreForShorterLengths ==
    (frames # <<>> /\ Top.kind = "AllPossibleLines") =>
        \A call \in Top.calls : call[2] < call[1]

(***************************************************************************)
(* Properties of the word-position query.                                  *)
(***************************************************************************)
\* the cells of a template that hold a letter
FixedPositions(template) ==
    {k \in 0..(Len(template) - 1) :
        At(template, k) # Null /\ At(template, k) # QuestionMark}

\* the words the template admits
Matching(gen, template) ==
    {w \in Range(gen.commonAndObscureWords) :
        \A k \in FixedPositions(template) : Len(w) > k /\ At(w, k) = At(template, k)}

\* C21: the query returns exactly the dictionary words that have the
\* template's letter at every fixed position: the empty set when none does,
\* the full word list when no position is fixed.
C21_QueryReturnsTheMatchingWords ==
    last.op = "CompatibleWords" =>
        /\ ~last.result.threw
        /\ Range(last.result.words) = Matching(generator, last.template)
        /\ FixedPositions(last.template) = {} =>
              last.result.words = generator.commonAndObscureWords

(***************************************************************************)
(* Properties of CharSet.                                                  *)
(***************************************************************************)
\* the runes Contains is true for, looked for one beyond the range each way
Members(c) == {r \in (minChar - 1)..(maxChar + 1) : Contains(c, r)}

\* C30: after any sequence of Add (failing ones included), AddAll, Intersect,
\* Clear and Clone the cached count is the number of runes Contains is true
\* for, a failed Add has changed neither object, and IsFull is true exactly
\* when all 27 runes are present.
C30_CountIsCached ==
    /\ \A x \in 1..Len(sets) :
         /\ Count(sets[x]) = Cardinality(Members(sets[x]))
         /\ IsFull(sets[x]) <=> Members(sets[x]) = minChar..maxChar
    /\ (last.op = "Add" /\ last.err) => sets = last.before

\* C30 witness: an Intersect has cut a full set down to a smaller, non-empty one
C30_Witness ==
    /\ last.op = "Intersect"
    /\ IsFull(last.before[last.receiver])
    /\ ~IsFull(sets[last.receiver])
    /\ Count(sets[last.receiver]) > 0

====
